---- MODULE Spec2Model ----
(***************************************************************************)
(* A model of the FeatBench evaluation engine (docker_agent): the pytest   *)
(* result parser, the per-repository file lock, the evaluation of one      *)
(* agent on one spec, the worker pool of the evaluation scheduler and the  *)
(* persistence of the results file.                                        *)
(***************************************************************************)
EXTENDS Integers, Sequences, FiniteSets, TLC

None == "None"

(***************************************************************************)
(* Bounds of the model.                                                    *)
(***************************************************************************)
\* longest pytest output, in lines, handed to the parser
MaxLines == 2
\* largest number of variants handed to the aggregation
MaxVariants == 3
\* the last second of the wall clock
MaxClock == 1
\* how many scheduler processes are started, one after the other
MaxRuns == 2
\* how many SIGINT/SIGTERM a process receives
MaxSignals == 2
\* how many file blocks a diff text has at most
MaxBlocks == 2

(***************************************************************************)
(* docker_agent/parsing/pytest_parser.py                                   *)
(***************************************************************************)
TestStatus == {"PASSED", "FAILED", "SKIPPED", "ERROR", "UNKNOWN"}

\* Test paths are strings, kept as sequences of characters.
T0 == <<"t">>
T1 == <<"t", "[", "1", "]">>
T2 == <<"t", "[", "2", "]">>
U1 == <<"u", "[", "1", "]">>
TestPaths == {T0, T1, T2, U1}

\* First words of an output line: the four the line pattern accepts, and one
\* it does not.
LineWords == {"PASSED", "FAILED", "SKIPPED", "ERROR", "collected"}
SummaryLine == [word |-> "short test summary info", path |-> <<>>]
OutputLines == [word : LineWords, path : TestPaths] \cup {SummaryLine}

RECURSIVE SeqsUpTo(_, _)
SeqsUpTo(S, n) ==
    IF n = 0 THEN {<<>>}
    ELSE LET shorter == SeqsUpTo(S, n - 1)
         IN  shorter \cup {Append(s, x) : s \in {t \in shorter : Len(t) = n - 1}, x \in S}

PytestOutputs == SeqsUpTo(OutputLines, MaxLines)

\* str.find: the index of the first summary line, 0 when there is none
SummaryStart(output) ==
    IF \E i \in 1..Len(output) : output[i] = SummaryLine
    THEN CHOOSE i \in 1..Len(output) :
            /\ output[i] = SummaryLine
            /\ \A j \in 1..(i - 1) : output[j] # SummaryLine
    ELSE 0

\* _parse_test_line: a line "STATUS path" records path -> STATUS, any other
\* line leaves the results alone
ParseTestLine(results, line) ==
    IF line.word \in {"PASSED", "FAILED", "SKIPPED", "ERROR"}
    THEN [p \in (DOMAIN results) \cup {line.path} |->
            IF p = line.path THEN line.word ELSE results[p]]
    ELSE results

RECURSIVE ParseLines(_, _, _)
ParseLines(results, output, i) ==
    IF i > Len(output) THEN results
    ELSE ParseLines(ParseTestLine(results, output[i]), output, i + 1)

\* _parse_output: the lines from the summary header on, or every line when
\* there is no header (_parse_from_full_output)
ParseOutput(output) ==
    LET start == SummaryStart(output)
    IN  ParseLines(<<>>, output, IF start = 0 THEN 1 ELSE start)

HasBracket(path) == \E i \in 1..Len(path) : path[i] = "["

\* _get_base_test_name: test_path.split('[')[0]
GetBaseTestName(path) ==
    IF HasBracket(path)
    THEN LET first == CHOOSE i \in 1..Len(path) :
                         /\ path[i] = "["
                         /\ \A j \in 1..(i - 1) : path[j] # "["
         IN  SubSeq(path, 1, first - 1)
    ELSE path

AggregateIgnoringError(results) ==
    IF DOMAIN results = {} THEN "UNKNOWN"
    ELSE LET statuses == {results[p] : p \in DOMAIN results}
         IN  IF \E s \in statuses : s \in {"FAILED", "UNKNOWN"}
             THEN "FAILED"
             ELSE IF \E s \in statuses : s = "PASSED" THEN "PASSED"
             ELSE "SKIPPED"

\* _aggregate_parametrized_results
AggregateParametrizedResults(results) ==
    IF DOMAIN results = {} THEN "UNKNOWN"
    ELSE LET statuses == {results[p] : p \in DOMAIN results}
         IN  IF \E s \in statuses : s \in {"FAILED", "ERROR", "UNKNOWN"}
             THEN "FAILED"
             ELSE IF \A s \in statuses : s \in {"PASSED", "SKIPPED"}
             THEN IF \E s \in statuses : s = "PASSED"
                  THEN "PASSED"
                  ELSE "SKIPPED"
             ELSE "UNKNOWN"

\* the entries of results that get_test_status hands to the aggregation
ParametrizedResults(results, pattern) ==
    LET base == GetBaseTestName(pattern)
        same == {p \in DOMAIN results : GetBaseTestName(p) = base}
    IN  [p \in same |-> results[p]]

\* get_test_status
GetTestStatus(results, pattern) ==
    IF pattern \in DOMAIN results
    THEN results[pattern]
    ELSE LET parametrized == ParametrizedResults(results, pattern)
         IN  IF DOMAIN parametrized # {}
             THEN AggregateParametrizedResults(parametrized)
             ELSE None

\* query_tests: a pattern that is not found is UNKNOWN
QueryTests(results, patterns) ==
    [p \in patterns |->
        LET status == GetTestStatus(results, p)
        IN  IF status # None THEN status ELSE "UNKNOWN"]

\* filter_tests_by_status
FilterTestsByStatus(results, expected) ==
    LET bases == {GetBaseTestName(p) : p \in DOMAIN results}
        group(b) == [p \in {q \in DOMAIN results : GetBaseTestName(q) = b} |-> results[p]]
    IN  {b \in bases : AggregateParametrizedResults(group(b)) \in expected}


(***************************************************************************)
(* The inputs of the evaluation scheduler: the configured agents, the      *)
(* dataset, the configuration values.                                      *)
(***************************************************************************)
\* the agent types _create_agent knows how to build
SupportedAgents == {"trae-agent", "gemini-cli", "claude-code", "openhands"}

\* config.AGENTS: the names of the configured agents, in order
AGENTS == <<"trae-agent", "gemini-cli", "agentless">>

\* the values of --agents the model runs with (given is FALSE when the flag is
\* absent and agent_names is None)
AgentNameChoices ==
    {[given |-> FALSE, names |-> {}],
     [given |-> TRUE, names |-> {"trae-agent"}],
     [given |-> TRUE, names |-> {"trae-agent", "gemini-cli"}]}

\* config.max_specs_per_repo
MAX_SPECS_PER_REPO == 2
\* config.max_eval_workers
MAX_EVAL_WORKERS == 2

Workers == 1..MAX_EVAL_WORKERS

\* The dataset (ANALYSIS_FILE): three specs of one repository, the third
\* beyond the per-repo cap.  FAIL_TO_PASS and PASS_TO_PASS are kept as the
\* lists their split(", ") yields, None when the field is empty.
Dataset == <<
    [instance_id |-> "i1", repo |-> <<"o", "rA">>,
     FAIL_TO_PASS |-> <<T1, T2>>, PASS_TO_PASS |-> None, test_patch |-> TRUE],
    [instance_id |-> "i2", repo |-> <<"o", "rA">>,
     FAIL_TO_PASS |-> None, PASS_TO_PASS |-> <<U1>>, test_patch |-> TRUE],
    [instance_id |-> "i3", repo |-> <<"o", "rA">>,
     FAIL_TO_PASS |-> <<T0>>, PASS_TO_PASS |-> None, test_patch |-> FALSE] >>

SpecIds == 1..Len(Dataset)
InstanceIds == {Dataset[i].instance_id : i \in SpecIds}

\* _dict_to_spec: repo_name = repo.split('/')[-1]
RepoName(i) == Dataset[i].repo[Len(Dataset[i].repo)]
RepoNames == {RepoName(i) : i \in SpecIds}

Range(seq) == {seq[k] : k \in 1..Len(seq)}

\* AgentEvaluator.evaluate: [a for a in AGENTS if agent_names is None or a.name in agent_names]
AgentsToEvaluate(names) ==
    LET keep(a) == ~names.given \/ a \in names.names
    IN  SelectSeq(AGENTS, keep)

\* _load_specs groups the dataset by repo, in order; repo_specs[:MAX_SPECS_PER_REPO]
RankInRepo(i) == Cardinality({j \in 1..i : Dataset[j].repo = Dataset[i].repo})
WithinCap(i) == RankInRepo(i) <= MAX_SPECS_PER_REPO

RemainingAgentsIgnoringCache(agents, i, keys) == agents
\* the agents that have not evaluated spec i yet
RemainingAgents(agents, i, keys) ==
    LET fresh(a) == <<a, Dataset[i].instance_id>> \notin keys
    IN  SelectSeq(agents, fresh)

\* all_specs: the (remaining_agents, spec) pairs with a remaining agent
AllSpecs(agents, keys) ==
    {[agents |-> RemainingAgents(agents, i, keys), spec |-> i] :
        i \in {j \in SpecIds : WithinCap(j) /\ RemainingAgents(agents, j, keys) # <<>>}}

(***************************************************************************)
(* docker_agent/evaluation/results.py                                      *)
(***************************************************************************)
\* A results file: absent, or its content and whether the JSON text is
\* complete (the text of an open file that json.dump has not finished is not).
AbsentFile == [exists |-> FALSE, content |-> <<>>, complete |-> FALSE]

\* load_existing_results: ([], set()) when the file is absent or does not parse
LoadExistingResults(file) ==
    IF file.exists /\ file.complete
    THEN [results |-> file.content,
          keys |-> {<<file.content[k].agent, file.content[k].instance_id>> :
                        k \in 1..Len(file.content)}]
    ELSE [results |-> <<>>, keys |-> {}]

(***************************************************************************)
(* docker_agent/agents/manager.py: the verdict of one evaluation           *)
(***************************************************************************)
\* what pytest can report for the selectors of one run: each selector once,
\* passed or failed
TestOutcomes(tests) == [Range(tests) -> {"PASSED", "FAILED"}]

\* ContainerOperator.parse_pytest_output
ParsePytestOutput(results, test_cases, expected) ==
    IF \E t \in test_cases : Len(t) > 0 /\ t[Len(t)] = "/"
    THEN FilterTestsByStatus(results, expected)
    ELSE LET answers == QueryTests(results, test_cases)
         IN  {t \in test_cases : answers[t] \in expected}

AnyExpectedPassed(passed, tests) == tests = <<>> \/ \E k \in 1..Len(tests) : tests[k] \in passed
\* all(test in passed for test in tests)
AllExpectedPassed(passed, tests) == \A k \in 1..Len(tests) : tests[k] \in passed

TestList(field) == IF field = None THEN <<>> ELSE field

\* what a successful agent run can print: a log without token counts, and a
\* log with the token summary of the agent's CLI
AgentLogs == {"agent output", "agent output with token counts"}

\* the token counts a log with a summary reports, as the JSON numbers read
TokenCounts == [total |-> "7", input |-> "4", output |-> "3"]

\* TraeAgent.parse_agent_log: the total as an int, or None; never a dict
TraeParseAgentLog(log) ==
    IF log = "agent output with token counts"
    THEN [type |-> "int", value |-> TokenCounts.total]
    ELSE [type |-> "NoneType"]

\* parse_agent_log of GeminiCLIAgent, ClaudeCodeAgent and OpenHandsAgent: a
\* dict with the three keys, None for the counts that were not found; their
\* own except returns the all-None dict
DictParseAgentLog(log) ==
    IF log = "agent output with token counts"
    THEN [type |-> "dict", total_tokens |-> TokenCounts.total,
          input_tokens |-> TokenCounts.input, output_tokens |-> TokenCounts.output]
    ELSE [type |-> "dict", total_tokens |-> None, input_tokens |-> None,
          output_tokens |-> None]

\* tokens_count = self.agent.parse_agent_log(agent_output), inside its try
ParseAgentLog(agent, log) ==
    IF agent = "trae-agent" THEN TraeParseAgentLog(log) ELSE DictParseAgentLog(log)

\* tokens_count["Total Tokens"] raises TypeError unless tokens_count is a dict
Subscriptable(tokens_count) == tokens_count.type = "dict"

\* the record evaluate returns when the agent succeeded
VerdictRecord(agent, i, f2p_passed, p2p_passed, tokens_count) ==
    LET f2p_tests == TestList(Dataset[i].FAIL_TO_PASS)
        p2p_tests == TestList(Dataset[i].PASS_TO_PASS)
        success_f2p == AllExpectedPassed(f2p_passed, f2p_tests)
        success_p2p == AllExpectedPassed(p2p_passed, p2p_tests)
    IN  [agent |-> agent, instance_id |-> Dataset[i].instance_id,
         success_f2p |-> success_f2p, success_p2p |-> success_p2p,
         success |-> success_f2p /\ success_p2p,
         passed_f2p_tests |-> f2p_passed, passed_p2p_tests |-> p2p_passed,
         expected_f2p_tests |-> f2p_tests, expected_p2p_tests |-> p2p_tests,
         total_tokens |-> tokens_count.total_tokens,
         input_tokens |-> tokens_count.input_tokens,
         output_tokens |-> tokens_count.output_tokens]

\* the record evaluate returns when the agent failed or a step raised
ErrorRecord(agent, i, error) ==
    [agent |-> agent, instance_id |-> Dataset[i].instance_id,
     success |-> FALSE, error |-> error]

IsErrorRecord(r) == "error" \in DOMAIN r

(***************************************************************************)
(* State.                                                                  *)
(***************************************************************************)
VARIABLES
    parserOutput,        \* PytestResultParser.output
    test_results,        \* PytestResultParser.test_results
    call,                \* the last call on the parser: name, argument, result
    agent_names,         \* the --agents argument of this process
    phase,               \* where AgentEvaluator.evaluate (the main thread) is
    queue,               \* the submitted work items no pool thread has taken
    worker,              \* per pool thread: where _eval_spec is, and its locals
    lockFile,            \* swap/<name>.repo.lock: 0 when absent, else the thread that created it
    active_containers,   \* BaseRunner.active_containers
    cleanup_in_progress, \* BaseRunner.cleanup_in_progress
    docker,              \* per spec: the state of the container made for it
    completed,           \* the finished futures as_completed has not yielded yet
    all_results,         \* the cumulative result list of evaluate
    evaluated_keys,      \* the (agent, instance_id) keys loaded from the results file
    files,               \* results/<base>_<EXP_SUFFIX>.json, per suffix
    EXP_SUFFIX,          \* config.EXP_SUFFIX of this process: its start time
    clock,               \* the wall clock, in seconds
    run,                 \* how many scheduler processes have been started
    all_specs,           \* the work list evaluate built: (remaining_agents, spec) pairs
    failed,              \* the (agent, instance_id) pairs whose evaluation failed in this process
    evaluated,           \* the pairs AgentManager.evaluate ran for in this process
    created,             \* the specs a container was created for in this process
    signal_handler,      \* BaseRunner.signal_handler and the handler it runs in the main thread
    tree                 \* per repo name: swap/<repo_name>, its patch.diff, and the operations on it and the
                         \* records of patch.diff applied to it since its last checkout_commit in the
                         \* evaluation that is under way

parserVars == <<parserOutput, test_results, call>>
schedVars == <<agent_names, phase, queue, worker, lockFile, active_containers,
               cleanup_in_progress, docker, completed, all_results, evaluated_keys,
               files, EXP_SUFFIX, clock, run, all_specs, failed, evaluated, created,
               signal_handler, tree>>
signalVars == <<signal_handler>>
treeVars == <<tree>>
vars == <<parserVars, schedVars>>

NoCall == [op |-> "none", arg |-> <<>>, ret |-> <<>>]

ParserInit ==
    /\ parserOutput = None
    /\ test_results = <<>>
    /\ call = NoCall

NoItem == [agents |-> <<>>, spec |-> 0]
NoResult == [agent |-> None]

\* swap/<repo_name>/patch.diff: absent, or the diff an agent run wrote
NoPatch == [exists |-> FALSE, agent |-> None, instance_id |-> None]

\* the working tree of a repository nothing has operated on
CleanTree == [patch_diff |-> NoPatch, ops |-> <<>>, applied |-> <<>>]

\* a pool thread that is not running _eval_spec.  Beside the locals of
\* _eval_spec and evaluate, tests_run counts the test commands issued in the
\* current evaluation, and failed_before_tests tells that its agent run
\* reported failure or that a step raised before any test command, and
\* captured is the patch.diff that was in the tree when the agent run returned.
IdleWorker ==
    [pc |-> "idle", item |-> NoItem, idx |-> 0, results |-> <<>>, container |-> 0,
     raised |-> FALSE, agent_success |-> FALSE, agent_output |-> "",
     test_phase |-> "none", f2p_passed |-> {}, result |-> NoResult,
     tests_run |-> 0, failed_before_tests |-> FALSE, should_cleanup |-> FALSE,
     captured |-> NoPatch]

\* no signal was received: SignalHandler.cleanup_in_progress is False, the
\* handler is not running, the process has no exit code
IdleHandler ==
    [pc |-> "idle", cleanup_in_progress |-> FALSE, snapshot |-> <<>>,
     signals |-> 0, passes |-> 0, exit_code |-> None]

\* the names a lock file can bear
LockNames == RepoNames \cup InstanceIds

\* what a failed agent run returns as its output
AgentOutputs == {"", "agent output"}

SchedInit ==
    /\ agent_names \in AgentNameChoices
    /\ phase = "start"
    /\ queue = {}
    /\ worker = [w \in Workers |-> IdleWorker]
    /\ lockFile = [n \in LockNames |-> 0]
    /\ active_containers = <<>>
    /\ cleanup_in_progress = FALSE
    /\ docker = [i \in SpecIds |-> "none"]
    /\ completed = {}
    /\ all_results = <<>>
    /\ evaluated_keys = {}
    /\ files = [t \in 0..MaxClock |-> AbsentFile]
    /\ EXP_SUFFIX = 0
    /\ clock = 0
    /\ run = 1
    /\ all_specs = {}
    /\ failed = {}
    /\ evaluated = {}
    /\ created = {}
    /\ signal_handler = IdleHandler
    /\ tree = [n \in RepoNames |-> CleanTree]

(***************************************************************************)
(* AgentEvaluator.evaluate, up to the submission of the work items.        *)
(***************************************************************************)
\* AgentManager.remove_all_locks
RemoveAllLocks(locks) == [n \in DOMAIN locks |-> 0]

Evaluate ==
    /\ phase = "start"
    /\ LET agents == AgentsToEvaluate(agent_names)
           loaded == LoadExistingResults(files[EXP_SUFFIX])
       IN  IF agents = <<>>
           THEN /\ phase' = "done"
                /\ UNCHANGED <<all_results, evaluated_keys, queue, all_specs, lockFile>>
           ELSE /\ all_results' = loaded.results
                /\ evaluated_keys' = loaded.keys
                \* random.shuffle and the pool's FIFO: any pending item can be next
                /\ all_specs' = AllSpecs(agents, loaded.keys)
                /\ queue' = AllSpecs(agents, loaded.keys)
                /\ lockFile' = RemoveAllLocks(lockFile)
                /\ phase' = "pool"
    /\ UNCHANGED <<agent_names, worker, active_containers, cleanup_in_progress,
                   docker, completed, files, EXP_SUFFIX, clock, run,
                   failed, evaluated, created>>
    /\ UNCHANGED <<parserVars, signalVars, treeVars>>

(***************************************************************************)
(* AgentEvaluator._eval_spec, one step of a pool thread at a time.         *)
(***************************************************************************)
Agent(w) == worker[w].item.agents[worker[w].idx]
SpecOf(w) == worker[w].item.spec
Pairs(item) == {<<item.agents[k], Dataset[item.spec].instance_id>> : k \in 1..Len(item.agents)}

\* the pool thread w takes a submitted work item and enters _eval_spec
TakeTask(w) ==
    /\ phase \in {"pool", "saving", "exiting"}
    /\ worker[w].pc = "idle"
    /\ \E it \in queue :
          /\ queue' = queue \ {it}
          /\ worker' = [worker EXCEPT ![w] =
                           [IdleWorker EXCEPT !.pc = "create_container", !.item = it]]
    /\ UNCHANGED <<agent_names, phase, lockFile, active_containers,
                   cleanup_in_progress, docker, completed, all_results,
                   evaluated_keys, files, EXP_SUFFIX, clock, run, failed,
                   created, all_specs, evaluated>>
    /\ UNCHANGED <<parserVars, signalVars, treeVars>>

\* docker_manager.create_container(spec) statement by statement, on the one
\* DockerEnvironmentManager all pool threads share.  self.cache_manager is the
\* result of the last call of CacheManager(repo, number, timeout), kept in
\* call; the container is named by the spec of the manager that creates it
CreateContainerSteps(w) ==
    /\ \/ \* self.cache_manager = CacheManager(sepc.repo, sepc.number, timeout)
          /\ worker[w].pc = "create_container"
          /\ call' = [op |-> "CacheManager", arg |-> SpecOf(w), ret |-> SpecOf(w)]
          /\ worker' = [worker EXCEPT ![w].pc = "check_cached_image"]
          /\ UNCHANGED <<docker, created>>
       \/ \* if self.cache_manager.check_cached_image():
          /\ worker[w].pc = "check_cached_image"
          /\ \E cached \in BOOLEAN :
                worker' = [worker EXCEPT ![w].pc =
                              IF cached THEN "create_container_from_cached_image"
                              ELSE "create_new_container"]
          /\ UNCHANGED <<call, docker, created>>
       \/ \* return self.cache_manager.create_container_from_cached_image(), or
          \* return self.cache_manager.create_new_container()
          /\ worker[w].pc \in {"create_container_from_cached_image", "create_new_container"}
          /\ docker' = [docker EXCEPT ![call.ret] = "running"]
          /\ created' = created \cup {SpecOf(w)}
          /\ worker' = [worker EXCEPT ![w].pc = "track", ![w].container = call.ret]
          /\ UNCHANGED call
    /\ UNCHANGED <<agent_names, phase, queue, lockFile, active_containers,
                   cleanup_in_progress, completed, all_results,
                   evaluated_keys, files, EXP_SUFFIX, clock, run, failed,
                   all_specs, evaluated>>
    /\ UNCHANGED <<parserOutput, test_results, signalVars, treeVars>>

\* docker_manager.create_container(spec) returns a container: the whole
\* call as one step of its thread
CreateContainer(w) ==
    /\ worker[w].pc = "create_container"
    /\ docker' = [docker EXCEPT ![SpecOf(w)] = "running"]
    /\ created' = created \cup {SpecOf(w)}
    /\ worker' = [worker EXCEPT ![w].pc = "track", ![w].container = SpecOf(w)]
    /\ UNCHANGED <<agent_names, phase, queue, lockFile, active_containers,
                   cleanup_in_progress, completed, all_results,
                   evaluated_keys, files, EXP_SUFFIX, clock, run, failed,
                   all_specs, evaluated>>
    /\ UNCHANGED <<parserVars, signalVars, treeVars>>

\* docker_manager.create_container(spec) raises: except Exception logs, the
\* function returns None
CreateContainerFails(w) ==
    /\ worker[w].pc = "create_container"
    /\ failed' = failed \cup Pairs(worker[w].item)
    /\ worker' = [worker EXCEPT ![w].pc = "finally", ![w].raised = TRUE]
    /\ UNCHANGED <<agent_names, phase, queue, lockFile, active_containers,
                   cleanup_in_progress, docker, completed, all_results,
                   evaluated_keys, files, EXP_SUFFIX, clock, run, created,
                   all_specs, evaluated>>
    /\ UNCHANGED <<parserVars, signalVars, treeVars>>

\* with self.shared_data_lock: self.active_containers.append(container)
TrackContainer(w) ==
    /\ worker[w].pc = "track"
    /\ active_containers' = Append(active_containers, worker[w].container)
    /\ worker' = [worker EXCEPT ![w].pc = "construct"]
    /\ UNCHANGED <<agent_names, phase, queue, lockFile, cleanup_in_progress,
                   docker, completed, all_results, evaluated_keys, files,
                   EXP_SUFFIX, clock, run, failed, created, all_specs,
                   evaluated>>
    /\ UNCHANGED <<parserVars, signalVars, treeVars>>

\* AgentManager._create_agent raises for a name that is not a supported agent
CreateAgentRaises(name) == name \notin SupportedAgents

\* ContainerOperator(...) and [AgentManager(container, c) for c in agents]:
\* one unsupported agent and the list raises, the except returns None
ConstructManagers(w) ==
    /\ worker[w].pc = "construct"
    /\ IF \E a \in Range(worker[w].item.agents) : CreateAgentRaises(a)
       THEN /\ failed' = failed \cup Pairs(worker[w].item)
            /\ worker' = [worker EXCEPT ![w].pc = "finally", ![w].raised = TRUE]
       ELSE /\ worker' = [worker EXCEPT ![w].pc = "lock", ![w].idx = 1]
            /\ UNCHANGED failed
    /\ UNCHANGED <<agent_names, phase, queue, lockFile, active_containers,
                   cleanup_in_progress, docker, completed, all_results,
                   evaluated_keys, files, EXP_SUFFIX, clock, run, created,
                   all_specs, evaluated>>
    /\ UNCHANGED <<parserVars, signalVars, treeVars>>

(***************************************************************************)
(* AgentManager.lock_repo and AgentManager.evaluate, inside _eval_spec.    *)
(***************************************************************************)
\* the working tree the thread w operates on: swap/<spec.repo_name>
TreeOf(w) == RepoName(SpecOf(w))

\* an operation of the thread w on a working tree
TreeOp(w, op, arg) == [by |-> w, op |-> op, arg |-> arg]

KeptNever(file, exclude_file) == FALSE
KeptAlways(file, exclude_file) == TRUE
\* git clean -fd -e <f> for f in exclude_file: an untracked file stays only
\* when it is excluded
KeptByClean(file, exclude_file) == file \in Range(exclude_file)

\* git reset --hard, git clean -fd, git checkout: what is left of patch.diff
GitClean(patch_diff, exclude_file) ==
    IF KeptByClean("patch.diff", exclude_file) THEN patch_diff ELSE NoPatch

\* the tree after the thread w ran checkout_commit with exclude_file in it
CheckedOut(t, w, exclude_file) ==
    [patch_diff |-> GitClean(t.patch_diff, exclude_file),
     ops |-> <<TreeOp(w, "checkout_commit", exclude_file)>>,
     applied |-> <<>>]

\* the tree after one more operation of the thread w
Operated(t, w, op) == [t EXCEPT !.ops = Append(@, TreeOp(w, op, <<>>))]

\* PatchAnalyzer.is_test_file, on a file name given as its pieces: one of the
\* five test_patterns is found in the lower-cased name
IsTestFile(filename) ==
    LET n == Len(filename)
        lower(piece) == CASE piece = "Tests" -> "tests"
                          [] piece = "Test" -> "test"
                          [] OTHER -> piece
        name == [k \in 1..n |-> lower(filename[k])]
        py == n > 0 /\ name[n] = ".py"
    IN  \* test.*\.py$
        \/ py /\ \E k \in 1..n : name[k] \in {"test", "tests", "testing"}
        \* .*test\.py$
        \/ py /\ n > 1 /\ name[n - 1] = "test"
        \* .*_test\.py$
        \/ py /\ n > 2 /\ name[n - 2] = "_" /\ name[n - 1] = "test"
        \* .*/test[s]?/.*\.py$
        \/ py /\ \E k \in 1..n : /\ k + 2 <= n
                                  /\ name[k] = "/" /\ name[k + 2] = "/"
                                  /\ name[k + 1] \in {"test", "tests"}
        \* .*/testing/.*\.py$
        \/ py /\ \E k \in 1..n : /\ k + 2 <= n
                                  /\ name[k] = "/" /\ name[k + 2] = "/"
                                  /\ name[k + 1] = "testing"

\* the PatchInfo records parse_unified_diff yields for the patch.diff an agent
\* run wrote: what the agent changed is its own choice, here a source file
\* with a test file, or test data, a test file in a Tests directory and a source
\* file
PatchRecords(patch_diff) ==
    LET info(filename) == [filename |-> filename, is_test_file |-> IsTestFile(filename)]
    IN  IF ~patch_diff.exists
        THEN <<>>
        ELSE IF patch_diff.agent = "trae-agent"
        THEN <<info(<<"src", "/", "m", ".py">>),
               info(<<"tests", "/", "test", "_", "m", ".py">>)>>
        ELSE <<info(<<"tests", "/", "data", ".json">>),
               info(<<"pkg", "/", "Tests", "/", "m", ".py">>),
               info(<<"src", "/", "m", ".py">>)>>

FilterKeepsAll(patches, include_test, include_source) == patches
\* PatchAnalyzer.filter_patches
FilterPatches(patches, include_test, include_source) ==
    LET keep(patch) == IF patch.is_test_file /\ include_test
                       THEN TRUE
                       ELSE ~patch.is_test_file /\ include_source
    IN  SelectSeq(patches, keep)

\* checkout_commit raises after one of its three commands failed: git clean
\* has run or has not
CheckoutFailed(t, exclude_file) ==
    {t, [t EXCEPT !.patch_diff = GitClean(@, exclude_file)]}

\* whether an agent run leaves a patch.diff: the trae-agent CLI writes
\* --patch-path itself; the other agents run git diff > patch.diff after an
\* exit code of 0 and succeed only when that command did
PatchWritten(agent, ok) ==
    IF agent # "trae-agent" /\ ok THEN {TRUE} ELSE BOOLEAN

\* what the steps of evaluate leave alone
EvaluateFrame ==
    /\ UNCHANGED <<agent_names, phase, queue, active_containers,
                   cleanup_in_progress, docker, completed, all_results,
                   evaluated_keys, files, EXP_SUFFIX, clock, run, created,
                   all_specs, evaluated>>
    /\ UNCHANGED <<parserVars, signalVars>>

LockNameByInstance(i) == Dataset[i].instance_id
\* repo_lock_path = swap/<repo_name>.repo.lock, evaluate passes spec.repo_name
LockName(i) == RepoName(i)

CreatesAlways(locks, name) == TRUE
\* open(repo_lock_path, 'x') succeeds only when the file does not exist
CreatesExclusively(locks, name) == locks[name] = 0

\* lock_repo: the exclusive creation succeeds, the thread enters the with block
LockRepo(w) ==
    /\ worker[w].pc = "lock"
    /\ CreatesExclusively(lockFile, LockName(SpecOf(w)))
    /\ lockFile' = [lockFile EXCEPT ![LockName(SpecOf(w))] = w]
    /\ worker' = [worker EXCEPT ![w].pc = "setup", ![w].tests_run = 0,
                                ![w].failed_before_tests = FALSE,
                                ![w].result = NoResult]
    /\ evaluated' = evaluated \cup {<<Agent(w), Dataset[SpecOf(w)].instance_id>>}
    /\ UNCHANGED <<failed, agent_names, phase, queue, active_containers,
                   cleanup_in_progress, docker, completed, all_results, evaluated_keys,
                   files, EXP_SUFFIX, clock, run, all_specs, created>>
    /\ UNCHANGED <<parserVars, signalVars, treeVars>>

\* lock_repo: FileExistsError, time.sleep(1), and the loop tries again
LockRepoWait(w) ==
    /\ worker[w].pc = "lock"
    /\ ~CreatesExclusively(lockFile, LockName(SpecOf(w)))
    /\ UNCHANGED <<worker, lockFile, failed, tree>>
    /\ EvaluateFrame

\* str(e) of the exception a step raised: a message, never empty
ExceptionText(exception) == "str(e)"

\* a step of the try block raises: except Exception returns the error record
\* and leaves the with block
Raises(w, exception) ==
    /\ worker' = [worker EXCEPT ![w].pc = "release",
                                ![w].result = ErrorRecord(Agent(w), SpecOf(w),
                                                          ExceptionText(exception)),
                                ![w].failed_before_tests =
                                    (worker[w].failed_before_tests \/ worker[w].tests_run = 0),
                                ![w].test_phase = "none", ![w].f2p_passed = {}]
    /\ failed' = failed \cup {<<Agent(w), Dataset[SpecOf(w)].instance_id>>}
    /\ UNCHANGED lockFile
    /\ EvaluateFrame

Goes(w, to) ==
    /\ worker' = [worker EXCEPT ![w].pc = to]
    /\ UNCHANGED <<lockFile, failed>>
    /\ EvaluateFrame

\* self.agent.setup()
AgentSetup(w) ==
    /\ worker[w].pc = "setup"
    /\ Goes(w, "checkout")
    /\ UNCHANGED tree

\* self.agent.setup() raises AgentSetupError
AgentSetupFails(w) ==
    /\ worker[w].pc = "setup"
    /\ Raises(w, "AgentSetupError")
    /\ UNCHANGED tree

\* operator.checkout_commit(spec.base_commit)
CheckoutBase(w) ==
    /\ worker[w].pc = "checkout"
    /\ tree' = [tree EXCEPT ![TreeOf(w)] = CheckedOut(@, w, <<>>)]
    /\ Goes(w, "run")

\* operator.checkout_commit raises ContainerOperationError
CheckoutBaseFails(w) ==
    /\ worker[w].pc = "checkout"
    /\ \E t \in CheckoutFailed(tree[TreeOf(w)], <<>>) :
          tree' = [tree EXCEPT ![TreeOf(w)] = t]
    /\ Raises(w, "ContainerOperationError")

\* agent_success, agent_output = self.agent.run(...): the agent works in the
\* tree and leaves patch.diff; run returns (False, text) on a non-zero exit
\* and on an exception
AgentRun(w) ==
    /\ worker[w].pc = "run"
    /\ \E ok \in BOOLEAN :
          \E out \in IF ok THEN AgentLogs ELSE AgentOutputs :
             \E written \in PatchWritten(Agent(w), ok) :
                LET patch_diff ==
                        IF written
                        THEN [exists |-> TRUE, agent |-> Agent(w),
                              instance_id |-> Dataset[SpecOf(w)].instance_id]
                        ELSE tree[TreeOf(w)].patch_diff
                IN  /\ worker' = [worker EXCEPT
                                     ![w].pc = "chown", ![w].agent_success = ok,
                                     ![w].agent_output = out,
                                     ![w].failed_before_tests = ~ok,
                                     ![w].captured = patch_diff]
                    /\ tree' = [tree EXCEPT ![TreeOf(w)] =
                                    Operated([@ EXCEPT !.patch_diff = patch_diff],
                                             w, "agent.run")]
    /\ UNCHANGED <<lockFile, failed>>
    /\ EvaluateFrame

TestsRunAlways(agent_success) == TRUE
\* if agent_success: the test phases run
TestsRun(agent_success) == agent_success

\* chown -R uid:gid /logs, then the branch on agent_success
FixLogsOwnership(w) ==
    /\ worker[w].pc = "chown"
    /\ IF TestsRun(worker[w].agent_success)
       THEN /\ worker' = [worker EXCEPT ![w].pc = "phase_checkout",
                                        ![w].test_phase = "f2p"]
            /\ UNCHANGED failed
       ELSE /\ worker' = [worker EXCEPT
                             ![w].pc = "release",
                             ![w].result = ErrorRecord(Agent(w), SpecOf(w),
                                                       worker[w].agent_output)]
            /\ failed' = failed \cup {<<Agent(w), Dataset[SpecOf(w)].instance_id>>}
    /\ UNCHANGED <<lockFile, tree>>
    /\ EvaluateFrame

\* operator.checkout_commit(spec.base_commit, exclude_file=["patch.diff"])
PhaseCheckout(w) ==
    /\ worker[w].pc = "phase_checkout"
    /\ tree' = [tree EXCEPT ![TreeOf(w)] = CheckedOut(@, w, <<"patch.diff">>)]
    /\ Goes(w, "phase_patch")

PhaseCheckoutFails(w) ==
    /\ worker[w].pc = "phase_checkout"
    /\ \E t \in CheckoutFailed(tree[TreeOf(w)], <<"patch.diff">>) :
          tree' = [tree EXCEPT ![TreeOf(w)] = t]
    /\ Raises(w, "ContainerOperationError")

\* path_analyzer.apply_patch_file_to_container(patch.diff, include_test=False):
\* read_patch_file finds the file, its non-test patches are applied
PhaseApplyDiff(w) ==
    /\ worker[w].pc = "phase_patch"
    /\ tree[TreeOf(w)].patch_diff.exists
    /\ LET patches == PatchRecords(tree[TreeOf(w)].patch_diff)
       IN  tree' = [tree EXCEPT ![TreeOf(w)] =
                       [Operated(@, w, "apply_patch_file_to_container") EXCEPT
                           !.applied = FilterPatches(patches, FALSE, TRUE)]]
    /\ Goes(w, "phase_test_patch")

\* read_patch_file raises FileOperationError: patch.diff does not exist
PhaseApplyDiffFails(w) ==
    /\ worker[w].pc = "phase_patch"
    /\ ~tree[TreeOf(w)].patch_diff.exists
    /\ UNCHANGED tree
    /\ Raises(w, "FileOperationError")

\* if spec.test_patch: operator.apply_patches(spec.test_patch)
PhaseApplyTestPatch(w) ==
    /\ worker[w].pc = "phase_test_patch"
    /\ tree' = IF Dataset[SpecOf(w)].test_patch
               THEN [tree EXCEPT ![TreeOf(w)] = Operated(@, w, "apply_patches")]
               ELSE tree
    /\ Goes(w, "phase_tests")

PhaseTests(w) ==
    IF worker[w].test_phase = "f2p"
    THEN TestList(Dataset[SpecOf(w)].FAIL_TO_PASS)
    ELSE TestList(Dataset[SpecOf(w)].PASS_TO_PASS)

\* the passed sets run_tests_in_container can return for the tests of the phase
PassedSets(tests) ==
    IF tests = <<>>
    THEN {{}}
    ELSE {ParsePytestOutput(o, Range(tests), {"PASSED"}) : o \in TestOutcomes(tests)}

\* the trees after the test command of the phase, which runs only for a
\* non-empty list of tests
TestsRunIn(w) ==
    IF PhaseTests(w) = <<>>
    THEN tree
    ELSE [tree EXCEPT ![TreeOf(w)] = Operated(@, w, "run_tests_in_container")]

\* if f2p_tests: f2p_passed, _ = operator.run_tests_in_container(...), and the
\* PASS_TO_PASS phase follows
RunF2PTests(w) ==
    /\ worker[w].pc = "phase_tests"
    /\ worker[w].test_phase = "f2p"
    /\ \E passed \in PassedSets(PhaseTests(w)) :
          worker' = [worker EXCEPT
                        ![w].pc = "phase_checkout", ![w].test_phase = "p2p",
                        ![w].f2p_passed = passed,
                        ![w].tests_run = @ + (IF PhaseTests(w) = <<>> THEN 0 ELSE 1)]
    /\ tree' = TestsRunIn(w)
    /\ UNCHANGED <<lockFile, failed>>
    /\ EvaluateFrame

\* if p2p_tests: p2p_passed, _ = operator.run_tests_in_container(...), then the
\* verdict, the token counts and the record; the TypeError of a tokens_count
\* that is not a dict is caught by the except Exception of evaluate
RunP2PTests(w) ==
    /\ worker[w].pc = "phase_tests"
    /\ worker[w].test_phase = "p2p"
    /\ LET tokens_count == ParseAgentLog(Agent(w), worker[w].agent_output)
       IN  /\ \E passed \in PassedSets(PhaseTests(w)) :
                 worker' = [worker EXCEPT
                     ![w].pc = "release", ![w].test_phase = "done",
                     ![w].f2p_passed = {},
                     ![w].result =
                         IF Subscriptable(tokens_count)
                         THEN VerdictRecord(Agent(w), SpecOf(w), worker[w].f2p_passed,
                                            passed, tokens_count)
                         ELSE ErrorRecord(Agent(w), SpecOf(w), ExceptionText("TypeError")),
                     ![w].tests_run = @ + (IF PhaseTests(w) = <<>> THEN 0 ELSE 1)]
           /\ failed' = IF Subscriptable(tokens_count)
                        THEN failed
                        ELSE failed \cup {<<Agent(w), Dataset[SpecOf(w)].instance_id>>}
    /\ tree' = TestsRunIn(w)
    /\ UNCHANGED lockFile
    /\ EvaluateFrame

UnlinkNever(locks, name) == locks
\* lock_repo's finally: if repo_lock_path.exists(): unlink
Unlink(locks, name) == [locks EXCEPT ![name] = 0]

\* evaluate returns through the with block, which releases the lock;
\* _eval_spec appends the result and goes on to the next agent manager.  The
\* evaluation is over: no operation of it on the tree is under way
ReleaseLock(w) ==
    /\ worker[w].pc = "release"
    /\ lockFile' = Unlink(lockFile, LockName(SpecOf(w)))
    /\ worker' = [worker EXCEPT
                     ![w].results = Append(@, worker[w].result),
                     ![w].agent_success = FALSE, ![w].agent_output = "",
                     ![w].test_phase = "none",
                     ![w].result = NoResult, ![w].tests_run = 0,
                     ![w].failed_before_tests = FALSE,
                     ![w].captured = NoPatch,
                     ![w].idx = IF @ < Len(worker[w].item.agents) THEN @ + 1 ELSE @,
                     ![w].pc = IF worker[w].idx < Len(worker[w].item.agents)
                               THEN "lock" ELSE "finally"]
    /\ tree' = [tree EXCEPT ![TreeOf(w)].ops = <<>>, ![TreeOf(w)].applied = <<>>]
    /\ UNCHANGED failed
    /\ EvaluateFrame

\* the finally of _eval_spec: with self.cleanup_lock:
\* should_cleanup = not self.cleanup_in_progress
FinallyCheck(w) ==
    /\ worker[w].pc = "finally"
    /\ worker' = [worker EXCEPT ![w].pc = "cleanup",
                                ![w].should_cleanup = ~cleanup_in_progress]
    /\ UNCHANGED <<agent_names, phase, queue, lockFile, active_containers,
                   cleanup_in_progress, docker, completed, all_results,
                   evaluated_keys, files, EXP_SUFFIX, clock, run, failed,
                   created, all_specs, evaluated>>
    /\ UNCHANGED <<parserVars, signalVars, treeVars>>

\* the thread w is about to call cleanup_container(container, force_remove=True)
CallsCleanupContainer(w) ==
    /\ worker[w].pc = "cleanup"
    /\ worker[w].container # 0
    /\ worker[w].should_cleanup

\* if container and should_cleanup: cleanup_container stops and removes the
\* container; the future completes with results, or with None when the
\* except branch was taken
FinallyCleanup(w) ==
    /\ worker[w].pc = "cleanup"
    /\ docker' = IF CallsCleanupContainer(w)
                 THEN [docker EXCEPT ![worker[w].container] = "removed"]
                 ELSE docker
    /\ completed' = completed \cup
          {[spec |-> SpecOf(w), returned |-> ~worker[w].raised,
            results |-> IF worker[w].raised THEN <<>> ELSE worker[w].results]}
    /\ worker' = [worker EXCEPT ![w] = IdleWorker]
    /\ UNCHANGED <<agent_names, phase, queue, lockFile, active_containers,
                   cleanup_in_progress, all_results, evaluated_keys, files,
                   EXP_SUFFIX, clock, run, failed, created, all_specs,
                   evaluated>>
    /\ UNCHANGED <<parserVars, signalVars, treeVars>>

(***************************************************************************)
(* AgentEvaluator.evaluate: the as_completed loop, and                     *)
(* EvaluationResultManager.save_evaluation_results.                        *)
(***************************************************************************)
\* results_file.open("w"): the file exists and is empty until json.dump is done
OpenForWriting(file) == [exists |-> TRUE, content |-> <<>>, complete |-> FALSE]

\* json.dump(results, f) and the close of the file
Dumped(results) == [exists |-> TRUE, content |-> results, complete |-> TRUE]

\* for future in as_completed(...): results = future.result(); if results:
\* all_results.extend(results) and the save begins
CollectFuture ==
    /\ phase = "pool"
    /\ \E f \in completed :
          /\ completed' = completed \ {f}
          /\ IF f.returned /\ f.results # <<>>
             THEN /\ all_results' = all_results \o f.results
                  /\ files' = [files EXCEPT ![EXP_SUFFIX] = OpenForWriting(@)]
                  /\ phase' = "saving"
             ELSE UNCHANGED <<all_results, files, phase>>
    /\ UNCHANGED <<agent_names, queue, worker, lockFile, active_containers,
                   cleanup_in_progress, docker, evaluated_keys, EXP_SUFFIX,
                   clock, run, failed, created, all_specs, evaluated>>
    /\ UNCHANGED <<parserVars, signalVars, treeVars>>

\* save_evaluation_results: json.dump writes the whole list, the file is closed
SaveDump ==
    /\ phase = "saving"
    /\ files' = [files EXCEPT ![EXP_SUFFIX] = Dumped(all_results)]
    /\ phase' = "pool"
    /\ UNCHANGED <<agent_names, queue, worker, lockFile, active_containers,
                   cleanup_in_progress, docker, completed, all_results,
                   evaluated_keys, EXP_SUFFIX, clock, run, failed, created,
                   all_specs, evaluated>>
    /\ UNCHANGED <<parserVars, signalVars, treeVars>>

\* every future was yielded: the pool shuts down, "Evaluation completed"
EvaluationCompleted ==
    /\ phase = "pool"
    /\ queue = {}
    /\ completed = {}
    /\ \A w \in Workers : worker[w].pc = "idle"
    /\ phase' = "done"
    /\ UNCHANGED <<agent_names, queue, worker, lockFile, active_containers,
                   cleanup_in_progress, docker, completed, all_results,
                   evaluated_keys, files, EXP_SUFFIX, clock, run, failed,
                   created, all_specs, evaluated>>
    /\ UNCHANGED <<parserVars, signalVars, treeVars>>

WorkerNext(w) ==
    \/ TakeTask(w)
    \/ CreateContainer(w)
    \/ CreateContainerFails(w)
    \/ TrackContainer(w)
    \/ ConstructManagers(w)
    \/ LockRepo(w)
    \/ LockRepoWait(w)
    \/ AgentSetup(w)
    \/ AgentSetupFails(w)
    \/ CheckoutBase(w)
    \/ CheckoutBaseFails(w)
    \/ AgentRun(w)
    \/ FixLogsOwnership(w)
    \/ PhaseCheckout(w)
    \/ PhaseCheckoutFails(w)
    \/ PhaseApplyDiff(w)
    \/ PhaseApplyDiffFails(w)
    \/ PhaseApplyTestPatch(w)
    \/ RunF2PTests(w)
    \/ RunP2PTests(w)
    \/ ReleaseLock(w)
    \/ FinallyCheck(w)
    \/ FinallyCleanup(w)

Next ==
    \/ Evaluate
    \/ \E w \in Workers : WorkerNext(w)
    \/ CollectFuture
    \/ SaveDump
    \/ EvaluationCompleted

(***************************************************************************)
(* A scheduler process ends and the next one starts; _eval_spec as one     *)
(* step, for the runs in which the interleaving of its steps is not the    *)
(* point.                                                                  *)
(***************************************************************************)
\* the records AgentManager.evaluate can return for an agent on spec i: the
\* error record of a raised step, or the verdict of a run whose selected
\* tests all pass and whose log has no token counts
EvaluateRecords(agent, i) ==
    LET f2p == Range(TestList(Dataset[i].FAIL_TO_PASS))
        p2p == Range(TestList(Dataset[i].PASS_TO_PASS))
        tokens_count == ParseAgentLog(agent, "agent output")
    IN  {ErrorRecord(agent, i, ExceptionText("Exception"))} \cup
        IF Subscriptable(tokens_count)
        THEN {VerdictRecord(agent, i, f2p, p2p, tokens_count)}
        ELSE {}

\* the result lists _eval_spec can return for the agents of a work item
RECURSIVE ResultLists(_, _, _)
ResultLists(agents, i, k) ==
    IF k = 0 THEN {<<>>}
    ELSE {Append(rs, r) : rs \in ResultLists(agents, i, k - 1),
                          r \in EvaluateRecords(agents[k], i)}

\* _eval_spec from its first line to its last, for one submitted work item
EvalSpec ==
    /\ phase \in {"pool", "saving"}
    /\ \E it \in queue :
          /\ queue' = queue \ {it}
          /\ \/ \* create_container raises
                /\ failed' = failed \cup Pairs(it)
                /\ completed' = completed \cup
                      {[spec |-> it.spec, returned |-> FALSE, results |-> <<>>]}
                /\ UNCHANGED <<created, docker, active_containers, evaluated>>
             \/ \* an agent manager cannot be built
                /\ \E a \in Range(it.agents) : CreateAgentRaises(a)
                /\ created' = created \cup {it.spec}
                /\ active_containers' = Append(active_containers, it.spec)
                /\ docker' = [docker EXCEPT ![it.spec] =
                                 IF cleanup_in_progress THEN "running" ELSE "removed"]
                /\ failed' = failed \cup Pairs(it)
                /\ completed' = completed \cup
                      {[spec |-> it.spec, returned |-> FALSE, results |-> <<>>]}
                /\ UNCHANGED evaluated
             \/ \* every agent of the item is evaluated
                /\ \A a \in Range(it.agents) : ~CreateAgentRaises(a)
                /\ created' = created \cup {it.spec}
                /\ active_containers' = Append(active_containers, it.spec)
                /\ docker' = [docker EXCEPT ![it.spec] =
                                 IF cleanup_in_progress THEN "running" ELSE "removed"]
                /\ evaluated' = evaluated \cup Pairs(it)
                /\ \E rs \in ResultLists(it.agents, it.spec, Len(it.agents)) :
                      /\ failed' = failed \cup
                            {<<rs[k].agent, rs[k].instance_id>> :
                                k \in {j \in 1..Len(rs) : IsErrorRecord(rs[j])}}
                      /\ completed' = completed \cup
                            {[spec |-> it.spec, returned |-> TRUE, results |-> rs]}
    /\ UNCHANGED <<agent_names, phase, worker, lockFile, cleanup_in_progress,
                   all_results, evaluated_keys, files, EXP_SUFFIX, clock, run,
                   all_specs>>
    /\ UNCHANGED <<parserVars, signalVars, treeVars>>

\* The process has ended; a new one is started, at a second no earlier than
\* the last: config computes EXP_SUFFIX from datetime.now() when it is
\* imported, and the new process has its own --agents.
StartProcess ==
    /\ phase = "done"
    /\ run < MaxRuns
    /\ run' = run + 1
    /\ \E now \in clock..MaxClock :
          /\ clock' = now
          /\ EXP_SUFFIX' = now
    /\ agent_names' \in AgentNameChoices
    /\ phase' = "start"
    /\ queue' = {}
    /\ all_specs' = {}
    /\ worker' = [w \in Workers |-> IdleWorker]
    /\ active_containers' = <<>>
    /\ cleanup_in_progress' = FALSE
    /\ completed' = {}
    /\ all_results' = <<>>
    /\ evaluated_keys' = {}
    /\ failed' = {}
    /\ evaluated' = {}
    /\ created' = {}
    /\ UNCHANGED <<lockFile, docker, files>>
    /\ UNCHANGED <<parserVars, signalVars, treeVars>>

ResumeNext ==
    \/ Evaluate
    \/ EvalSpec
    \/ CollectFuture
    \/ SaveDump
    \/ EvaluationCompleted
    \/ StartProcess

(***************************************************************************)
(* The parser on its own: it is constructed on an output and queried, or   *)
(* its aggregation is applied to a map of variants.                        *)
(***************************************************************************)
\* PytestResultParser(output)
Construct(output) ==
    /\ parserOutput = None
    /\ call = NoCall
    /\ parserOutput' = output
    /\ test_results' = ParseOutput(output)
    /\ UNCHANGED call
    /\ UNCHANGED schedVars

\* parser.query_tests([pattern])
CallQueryTests(pattern) ==
    /\ parserOutput # None
    /\ call' = [op |-> "query_tests", arg |-> pattern,
                ret |-> QueryTests(test_results, {pattern})]
    /\ UNCHANGED <<parserOutput, test_results>>
    /\ UNCHANGED schedVars

\* parser.filter_tests_by_status([PASSED])
CallFilterTestsByStatus ==
    /\ parserOutput # None
    /\ call' = [op |-> "filter_tests_by_status", arg |-> {"PASSED"},
                ret |-> FilterTestsByStatus(test_results, {"PASSED"})]
    /\ UNCHANGED <<parserOutput, test_results>>
    /\ UNCHANGED schedVars

\* the variant maps handed to the aggregation: up to MaxVariants paths, each
\* with any status
VariantMaps ==
    UNION {[D -> TestStatus] : D \in {S \in SUBSET TestPaths : Cardinality(S) <= MaxVariants}}

\* parser._aggregate_parametrized_results(variants)
CallAggregate(variants) ==
    /\ parserOutput = None
    /\ call = NoCall
    /\ call' = [op |-> "aggregate", arg |-> variants,
                ret |-> AggregateParametrizedResults(variants)]
    /\ UNCHANGED <<parserOutput, test_results>>
    /\ UNCHANGED schedVars

ParserNext ==
    \/ \E output \in PytestOutputs : Construct(output)
    \/ \E pattern \in TestPaths : CallQueryTests(pattern)
    \/ CallFilterTestsByStatus
    \/ \E variants \in VariantMaps : CallAggregate(variants)

(***************************************************************************)
(* SIGINT/SIGTERM: SignalHandler._handle_signal, BaseRunner._on_signal and *)
(* CleanupManager.cleanup_all run in the main thread while the pool        *)
(* threads go on; _eval_spec from the construction of the agent managers   *)
(* to its return as one step.                                              *)
(***************************************************************************)
\* ContainerOperator(...), the agent managers and the evaluation of every
\* agent of the work item
EvaluateAgents(w) ==
    /\ worker[w].pc = "construct"
    /\ IF \E a \in Range(worker[w].item.agents) : CreateAgentRaises(a)
       THEN /\ failed' = failed \cup Pairs(worker[w].item)
            /\ worker' = [worker EXCEPT ![w].pc = "finally", ![w].raised = TRUE]
            /\ UNCHANGED evaluated
       ELSE /\ evaluated' = evaluated \cup Pairs(worker[w].item)
            /\ \E rs \in ResultLists(worker[w].item.agents, SpecOf(w),
                                     Len(worker[w].item.agents)) :
                  /\ failed' = failed \cup
                        {<<rs[k].agent, rs[k].instance_id>> :
                            k \in {j \in 1..Len(rs) : IsErrorRecord(rs[j])}}
                  /\ worker' = [worker EXCEPT ![w].pc = "finally", ![w].results = rs]
    /\ UNCHANGED <<agent_names, phase, queue, lockFile, active_containers,
                   cleanup_in_progress, docker, completed, all_results,
                   evaluated_keys, files, EXP_SUFFIX, clock, run, created,
                   all_specs>>
    /\ UNCHANGED <<parserVars, signalVars, treeVars>>

\* the mutex under which _eval_spec appends to active_containers
AppendMutex == "shared_data_lock"
\* the mutex under which _eval_spec reads, and _on_signal reads and writes,
\* cleanup_in_progress
FlagMutex == "cleanup_lock"
\* cleanup_all copies active_containers and removes from it under no mutex
CleanupAllMutex == None

\* what the steps of the handler leave alone
HandlerFrame ==
    /\ UNCHANGED <<agent_names, queue, worker, lockFile, completed, all_results,
                   evaluated_keys, files, EXP_SUFFIX, clock, run, failed,
                   created, all_specs, evaluated>>
    /\ UNCHANGED <<parserVars, treeVars>>

\* _handle_signal, entered while no handler runs: SignalHandler's own flag is
\* False, it is set and the callback is called
HandleSignal ==
    /\ phase \in {"pool", "saving", "exiting"}
    /\ signal_handler.pc = "idle"
    /\ signal_handler.signals < MaxSignals
    /\ ~signal_handler.cleanup_in_progress
    /\ signal_handler' = [signal_handler EXCEPT !.pc = "on_signal",
                                                 !.cleanup_in_progress = TRUE,
                                                 !.signals = @ + 1]
    /\ UNCHANGED <<phase, active_containers, cleanup_in_progress, docker>>
    /\ HandlerFrame

\* _handle_signal, entered while the handler of an earlier signal runs: the
\* flag is set, "ignoring duplicate signal", return
DuplicateSignal ==
    /\ signal_handler.pc # "idle"
    /\ signal_handler.signals < MaxSignals
    /\ signal_handler.cleanup_in_progress
    /\ signal_handler' = [signal_handler EXCEPT !.signals = @ + 1]
    /\ UNCHANGED <<phase, active_containers, cleanup_in_progress, docker>>
    /\ HandlerFrame

\* _on_signal: with self.cleanup_lock: return if cleanup_in_progress, else
\* set it
OnSignal ==
    /\ signal_handler.pc = "on_signal"
    /\ IF cleanup_in_progress
       THEN /\ signal_handler' = [signal_handler EXCEPT !.pc = "exit"]
            /\ UNCHANGED cleanup_in_progress
       ELSE /\ signal_handler' = [signal_handler EXCEPT !.pc = "cleanup_all"]
            /\ cleanup_in_progress' = TRUE
    /\ UNCHANGED <<phase, active_containers, docker>>
    /\ HandlerFrame

\* cleanup_all: for container in active_containers[:], the copy of the list
CleanupAllSnapshot ==
    /\ signal_handler.pc = "cleanup_all"
    /\ signal_handler' = [signal_handler EXCEPT !.pc = "cleanup_loop",
                                                 !.snapshot = active_containers,
                                                 !.passes = @ + 1]
    /\ UNCHANGED <<phase, active_containers, cleanup_in_progress, docker>>
    /\ HandlerFrame

\* list.remove(x): the list without the first x
RemoveFirst(list, x) ==
    IF \E k \in 1..Len(list) : list[k] = x
    THEN LET k == CHOOSE k \in 1..Len(list) :
                     list[k] = x /\ \A j \in 1..(k - 1) : list[j] # x
         IN  SubSeq(list, 1, k - 1) \o SubSeq(list, k + 1, Len(list))
    ELSE list

\* the body of the loop of cleanup_all: the answer to the prompt,
\* cleanup_container(container, force_remove), active_containers.remove
CleanupAllStep ==
    /\ signal_handler.pc = "cleanup_loop"
    /\ signal_handler.snapshot # <<>>
    /\ LET container == Head(signal_handler.snapshot)
       IN  /\ \E force_remove \in BOOLEAN :
                 docker' = IF force_remove
                           THEN [docker EXCEPT ![container] = "removed"]
                           ELSE docker
           /\ active_containers' = RemoveFirst(active_containers, container)
    /\ signal_handler' = [signal_handler EXCEPT !.snapshot = Tail(@)]
    /\ UNCHANGED <<phase, cleanup_in_progress>>
    /\ HandlerFrame

\* the finally of _on_signal: with self.cleanup_lock: cleanup_in_progress = False
CleanupAllDone ==
    /\ signal_handler.pc = "cleanup_loop"
    /\ signal_handler.snapshot = <<>>
    /\ cleanup_in_progress' = FALSE
    /\ signal_handler' = [signal_handler EXCEPT !.pc = "exit"]
    /\ UNCHANGED <<phase, active_containers, docker>>
    /\ HandlerFrame

\* self.cleanup_in_progress = False; sys.exit(0): SystemExit leaves the
\* as_completed loop, and the with block of the executor waits for the pool
SysExit ==
    /\ signal_handler.pc = "exit"
    /\ signal_handler' = [signal_handler EXCEPT !.pc = "idle",
                                                 !.cleanup_in_progress = FALSE,
                                                 !.exit_code = "0"]
    /\ phase' = "exiting"
    /\ UNCHANGED <<active_containers, cleanup_in_progress, docker>>
    /\ HandlerFrame

\* ThreadPoolExecutor.__exit__: shutdown(wait=True) returns when every
\* submitted work item has run, and the process ends
ProcessExits ==
    /\ phase = "exiting"
    /\ signal_handler.pc = "idle"
    /\ queue = {}
    /\ \A w \in Workers : worker[w].pc = "idle"
    /\ phase' = "exited"
    /\ UNCHANGED <<signal_handler, active_containers, cleanup_in_progress, docker>>
    /\ HandlerFrame

\* the main thread runs its loop only while it runs no handler
MainThread ==
    /\ signal_handler.pc = "idle"
    /\ \/ Evaluate
       \/ CollectFuture
       \/ SaveDump
       \/ EvaluationCompleted

SignalWorkerNext(w) ==
    \/ TakeTask(w)
    \/ CreateContainer(w)
    \/ CreateContainerFails(w)
    \/ TrackContainer(w)
    \/ EvaluateAgents(w)
    \/ FinallyCheck(w)
    \/ FinallyCleanup(w)

SignalNext ==
    \/ MainThread
    \/ \E w \in Workers : SignalWorkerNext(w)
    \/ HandleSignal
    \/ DuplicateSignal
    \/ OnSignal
    \/ CleanupAllSnapshot
    \/ CleanupAllStep
    \/ CleanupAllDone
    \/ SysExit
    \/ ProcessExits

(***************************************************************************)
(* docker_agent/utils/command_executor.py: DockerCommandExecutor, and the  *)
(* container operations that call it with a timeout.                       *)
(***************************************************************************)
\* the exit codes of a command in the container; timeout(1) exits with 124
\* when it ends the command, 137 is the exit code after its KILL
ExitCodes == {0, 1, 124, 137}

\* the timeout argument of execute, in seconds: None, checkout_commit's and
\* run_tests_in_container's
Timeouts == {None, "30", "1200"}

\* str(e) of the TestExecutionError of _exec, as the output of a command
TimeoutLine == [word |-> "Container command execution timeout", path |-> <<>>]

\* the outputs of the commands execute is called with
CommandOutputs == SeqsUpTo(OutputLines, 1)

\* DockerCommandExecutor._exec: raises for the exit codes of a timeout when a
\* timeout was given, else returns (exit_code, output)
Exec(exit_code, output, timeout) ==
    IF timeout # None /\ exit_code \in {124, 137}
    THEN [raised |-> TRUE, exception |-> "TestExecutionError",
          exit_code |-> exit_code, output |-> <<TimeoutLine>>]
    ELSE [raised |-> FALSE, exception |-> None,
          exit_code |-> exit_code, output |-> output]

\* DockerCommandExecutor.execute: except Exception returns (1, str(e))
Execute(exit_code, output, timeout) ==
    LET r == Exec(exit_code, output, timeout)
    IN  IF r.raised
        THEN [raised |-> FALSE, exception |-> None, exit_code |-> 1, output |-> r.output]
        ELSE r

CheckoutRunsEveryCommand(exit_codes, exclude_file) ==
    [raised |-> \E k \in 1..Len(exit_codes) : exit_codes[k] # 0,
     exception |-> IF \E k \in 1..Len(exit_codes) : exit_codes[k] # 0
                   THEN "ContainerOperationError" ELSE None,
     commands |-> <<<<"git reset --hard">>, <<"git clean -fd">>, <<"git checkout", "commit_hash">>>>]
\* ContainerOperator.checkout_commit: git reset, git clean with -e <f> for
\* each f of exclude_file, git checkout, each with timeout=30 and ending with
\* its exit code of exit_codes; the first non-zero exit code raises.  The
\* result tells the commands that were executed, each as its words
CheckoutCommit(exit_codes, exclude_file) ==
    LET excludes[k \in 0..Len(exclude_file)] ==
            IF k = 0 THEN <<>> ELSE excludes[k - 1] \o <<"-e", exclude_file[k]>>
        commands == <<<<"git reset --hard">>,
                      <<"git clean -fd">> \o excludes[Len(exclude_file)],
                      <<"git checkout", "commit_hash">>>>
        failing == {k \in 1..Len(commands) :
                       Execute(exit_codes[k], <<>>, "30").exit_code # 0}
        last == IF failing = {}
                THEN Len(commands)
                ELSE CHOOSE k \in failing : \A j \in failing : k <= j
    IN  [raised |-> failing # {},
         exception |-> IF failing # {} THEN "ContainerOperationError" ELSE None,
         commands |-> SubSeq(commands, 1, last)]

\* ContainerOperator.run_tests_in_container: the pytest command with
\* timeout=1200, its exit code dropped, its output parsed
RunTestsInContainer(exit_code, output, tests) ==
    LET r == Execute(exit_code, output, "1200")
    IN  [raised |-> r.raised, exception |-> r.exception,
         matched |-> ParsePytestOutput(ParseOutput(r.output), tests, {"PASSED"})]

(***************************************************************************)
(* PatchAnalyzer.  A text is the sequence of its lines (what split('\n')   *)
(* yields, so the empty text is one empty line), a line is the sequence of *)
(* its pieces, and a file name is a sequence of pieces too, empty when the *)
(* name is None.                                                           *)
(***************************************************************************)
\* the PatchInfo records _build_complete_diff is called with.  Their hunks: a
\* plain one, one that ends with a blank context line, one that ends with the
\* marker of a missing newline; only a renamed record has an old_filename,
\* and it may lack it
PatchInfos ==
    LET patch_contents ==
            {<<<<"@@", " -1,2 +1,2 @@">>, <<"-", "a">>, <<"+", "b">>>>,
             <<<<"@@", " -1,2 +1,2 @@">>, <<"+", "b">>, <<" ">>>>,
             <<<<"@@", " -1 +1 @@">>, <<"-", "a">>, <<"\\", " No newline at end of file">>>>}
        records ==
            [filename : {<<"src", "/", "m", ".py">>, <<"tests", "/", "m", ".py">>},
             status : {"added", "modified", "removed", "renamed"},
             patch_content : patch_contents,
             old_filename : {<<>>, <<"old", ".py">>}]
    IN  {patch \in records : patch.status # "renamed" => patch.old_filename = <<>>}

\* PatchAnalyzer._build_complete_diff
BuildCompleteDiff(patch) ==
    LET git(old, new) == <<"diff --git", " a/">> \o old \o <<" b/">> \o new
        header == git(patch.filename, patch.filename)
        old_name == IF patch.old_filename # <<>> THEN patch.old_filename ELSE patch.filename
        head ==
            CASE patch.status = "added" ->
                    <<header, <<"new file mode", " 100644">>,
                      <<"index", " 0000000..1111111">>,
                      <<"-", "-- /dev/null">>, <<"+", "++ b/">> \o patch.filename>>
              [] patch.status = "removed" ->
                    <<header, <<"deleted file mode", " 100644">>,
                      <<"index", " 1111111..0000000">>,
                      <<"-", "-- a/">> \o patch.filename, <<"+", "++ /dev/null">>>>
              [] patch.status = "renamed" ->
                    <<git(old_name, patch.filename), <<"similarity index", " 100%">>,
                      <<"rename from", " ">> \o old_name,
                      <<"rename to", " ">> \o patch.filename>>
              [] OTHER ->
                    <<header, <<"index", " 1111111..2222222 100644">>,
                      <<"-", "-- a/">> \o patch.filename,
                      <<"+", "++ b/">> \o patch.filename>>
    IN  \* the text ends with "\n": its last line is empty
        head \o patch.patch_content \o <<<<>>>>

\* PatchAnalyzer.parse_unified_diff with _parse_single_file_diff and
\* _extract_file_info
ParseUnifiedDiff(diff_content) ==
    LET n == Len(diff_content)
        StartsWith(line, prefix) == line # <<>> /\ line[1] = prefix
        IsBlank(line) == \A k \in 1..Len(line) : line[k] = " "
        \* str.strip of a text: the blank lines at both ends go
        Strip(lines) ==
            LET solid == {k \in 1..Len(lines) : ~IsBlank(lines[k])}
                first == CHOOSE k \in solid : \A j \in solid : k <= j
                last == CHOOSE k \in solid : \A j \in solid : j <= k
            IN  IF solid = {} THEN <<>> ELSE SubSeq(lines, first, last)
        \* re.split(r'\ndiff --git', diff_content): a new piece begins at every
        \* line but the first that starts with diff --git
        cuts == {1} \cup {k \in 2..n : StartsWith(diff_content[k], "diff --git")}
        nth(i) == CHOOSE k \in cuts : Cardinality({j \in cuts : j < k}) = i - 1
        file_diff(i) ==
            SubSeq(diff_content, nth(i),
                   IF i < Cardinality(cuts) THEN nth(i + 1) - 1 ELSE n)
        \* re.match(r'diff --git a/(.*?) b/(.*)', git_line)
        git_match(git_line) ==
            /\ Len(git_line) >= 3
            /\ git_line[1] = "diff --git"
            /\ git_line[2] = " a/"
            /\ \E k \in 3..Len(git_line) : git_line[k] = " b/"
        _extract_file_info(git_line, all_lines) ==
            IF ~git_match(git_line)
            THEN [filename |-> <<>>, status |-> "unknown", old_filename |-> <<>>]
            ELSE LET b == CHOOSE k \in 3..Len(git_line) :
                              /\ git_line[k] = " b/"
                              /\ \A j \in 3..(k - 1) : git_line[j] # " b/"
                     old_file == SubSeq(git_line, 3, b - 1)
                     new_file == SubSeq(git_line, b + 1, Len(git_line))
                     marks == {k \in 1..Len(all_lines) :
                                  /\ k <= 10
                                  /\ \/ StartsWith(all_lines[k], "new file mode")
                                     \/ StartsWith(all_lines[k], "deleted file mode")
                                     \/ StartsWith(all_lines[k], "rename from")}
                     mark == all_lines[CHOOSE k \in marks : \A j \in marks : k <= j][1]
                     status == IF marks = {} THEN "modified"
                               ELSE IF mark = "new file mode" THEN "added"
                               ELSE IF mark = "deleted file mode" THEN "removed"
                               ELSE "renamed"
                 IN  [filename |-> IF status # "removed" THEN new_file ELSE old_file,
                      status |-> status,
                      old_filename |-> IF status = "renamed" THEN old_file ELSE <<>>]
        _parse_single_file_diff(text) ==
            LET lines == Strip(text)
                info == _extract_file_info(lines[1], lines)
                in_hunk(k) == \E j \in 1..(k - 1) : StartsWith(lines[j], "@@")
                kept == {k \in 1..Len(lines) :
                            \/ StartsWith(lines[k], "@@")
                            \/ /\ in_hunk(k)
                               /\ \/ lines[k] = <<>>
                                  \/ StartsWith(lines[k], "+")
                                  \/ StartsWith(lines[k], "-")
                                  \/ StartsWith(lines[k], " ")
                            \/ StartsWith(lines[k], "\\")}
                pick[k \in 0..Len(lines)] ==
                    IF k = 0 THEN <<>>
                    ELSE IF k \in kept THEN Append(pick[k - 1], lines[k]) ELSE pick[k - 1]
                patch_lines == pick[Len(lines)]
            IN  IF info.filename = <<>>
                THEN <<>>
                ELSE <<[filename |-> info.filename, status |-> info.status,
                        patch_content |-> IF patch_lines = <<>> THEN <<<<>>>> ELSE patch_lines,
                        is_test_file |-> IsTestFile(info.filename),
                        old_filename |-> info.old_filename]>>
        patches[i \in 0..Cardinality(cuts)] ==
            IF i = 0 THEN <<>>
            ELSE IF Strip(file_diff(i)) = <<>>
            THEN patches[i - 1]
            ELSE patches[i - 1] \o _parse_single_file_diff(file_diff(i))
    IN  patches[Cardinality(cuts)]

\* the texts parse_unified_diff is called with: up to MaxBlocks blocks one
\* after the other, each the diff of a file as git diff writes it, as
\* git diff --no-prefix writes it, or as diff -u writes it (no diff --git line)
DiffContents ==
    LET hunk == <<<<"@@", " -1,2 +1,2 @@">>, <<"-", "a">>, <<"+", "b">>>>
        m == <<"src", "/", "m", ".py">>
        blocks ==
            {BuildCompleteDiff([filename |-> m, status |-> "modified",
                                patch_content |-> hunk, old_filename |-> <<>>]),
             BuildCompleteDiff([filename |-> <<"tests", "/", "m", ".py">>,
                                status |-> "added",
                                patch_content |-> hunk, old_filename |-> <<>>]),
             <<<<"diff --git", " ">> \o m \o <<" ">> \o m,
               <<"index", " 1111111..2222222 100644">>,
               <<"-", "-- ">> \o m, <<"+", "++ ">> \o m>> \o hunk \o <<<<>>>>,
             <<<<"-", "-- a/">> \o m, <<"+", "++ b/">> \o m>> \o hunk \o <<<<>>>>}
        \* the text t followed by the text u
        concat(t, u) ==
            SubSeq(t, 1, Len(t) - 1) \o <<t[Len(t)] \o u[1]>> \o SubSeq(u, 2, Len(u))
        text[k \in 0..MaxBlocks] ==
            IF k = 0 THEN {<<<<>>>>}
            ELSE text[k - 1] \cup {concat(t, b) : t \in text[k - 1], b \in blocks}
    IN  text[MaxBlocks]

ApplyUntilFirstFailure(patches, outcomes) ==
    LET ok(k) == ~outcomes[k].raises /\ outcomes[k].write = 0 /\ outcomes[k].apply = 0
        done == {k \in 1..Len(patches) : \A j \in 1..k : ok(j)}
    IN  [applied_files |-> [k \in 1..Cardinality(done) |-> patches[k].filename],
         commands |-> [k \in 1..Cardinality(done) |-> [patch |-> k, command |-> "patch"]]]
\* PatchAnalyzer.apply_patches_to_container with
\* _apply_single_patch_to_container.  outcomes[k] tells, for the k-th patch,
\* whether building its diff raises and the exit codes its two commands end
\* with; the result is the returned list and the commands that were executed
ApplyPatchesToContainer(patches, outcomes) ==
    LET \* docker_executor.execute(write_cmd, tty=False, timeout=30)
        write(k) == Execute(outcomes[k].write, <<>>, "30").exit_code
        \* docker_executor.execute(apply_cmd, workdir, tty=False, timeout=30)
        apply(k) == Execute(outcomes[k].apply, <<>>, "30").exit_code
        _apply_single_patch_to_container(k) ==
            IF outcomes[k].raises
            THEN [raised |-> TRUE, success |-> FALSE, commands |-> <<>>]
            ELSE IF write(k) # 0
            THEN [raised |-> FALSE, success |-> FALSE,
                  commands |-> <<[patch |-> k, command |-> "base64 -d"]>>]
            ELSE [raised |-> FALSE, success |-> apply(k) = 0,
                  commands |-> <<[patch |-> k, command |-> "base64 -d"],
                                 [patch |-> k, command |-> "patch"]>>]
        loop[k \in 0..Len(patches)] ==
            IF k = 0
            THEN [applied_files |-> <<>>, commands |-> <<>>]
            ELSE LET r == _apply_single_patch_to_container(k)
                 IN  [applied_files |->
                          IF r.success
                          THEN Append(loop[k - 1].applied_files, patches[k].filename)
                          ELSE loop[k - 1].applied_files,
                      commands |-> loop[k - 1].commands \o r.commands]
    IN  loop[Len(patches)]

\* patch_analyzer.apply_patches_to_container(patches, docker_executor, workdir)
\* for the three records of a patch.diff
CallApplyPatchesToContainer(outcomes) ==
    LET patches == PatchRecords([exists |-> TRUE, agent |-> "gemini-cli", instance_id |-> "i1"])
    IN  /\ call = NoCall
        /\ call' = [op |-> "apply_patches_to_container",
                    arg |-> [patches |-> patches, outcomes |-> outcomes],
                    ret |-> ApplyPatchesToContainer(patches, outcomes)]
        /\ UNCHANGED <<parserOutput, test_results>>
        /\ UNCHANGED schedVars

\* run(problem_statement, instance_id, repo_name) of the four agents.  The
\* command of _build_command is run by /bin/bash -c: a pipeline exits with the
\* code of its last command.  exit_codes gives the exit code of the agent's
\* CLI, of the tee its output is piped through, and of git diff > patch.diff
Run(agent, exit_codes, agent_output) ==
    LET \* _build_command: only openhands appends "| tee /logs/output.jsonl"
        piped == agent = "openhands"
        exit_code == IF piped THEN exit_codes.tee ELSE exit_codes.cli
        diff_exit == exit_codes.diff
    IN  IF agent = "trae-agent"
        THEN [success |-> exit_code = 0, output |-> agent_output,
              commands |-> <<"run_cmd">>]
        ELSE IF exit_code # 0
        THEN [success |-> FALSE, output |-> agent_output, commands |-> <<"run_cmd">>]
        ELSE IF diff_exit # 0
        THEN [success |-> FALSE, output |-> agent_output,
              commands |-> <<"run_cmd", "git diff">>]
        ELSE [success |-> TRUE, output |-> agent_output,
              commands |-> <<"run_cmd", "git diff">>]

CallRun(agent, exit_codes, agent_output) ==
    /\ call = NoCall
    /\ call' = [op |-> "run",
                arg |-> [agent |-> agent, exit_codes |-> exit_codes,
                         agent_output |-> agent_output],
                ret |-> Run(agent, exit_codes, agent_output)]
    /\ UNCHANGED <<parserOutput, test_results>>
    /\ UNCHANGED schedVars

\* The shell commands of AgentManager.evaluate for an agent whose run
\* succeeds, up to the tests of the first phase, each with the timeout
\* argument of its call of execute (None when the call gives none)
EvaluateCommands(agent, branch) ==
    LET c(cmd, timeout) == [cmd |-> cmd, timeout |-> timeout]
        \* _checkout_branch: only for a branch other than main
        branch_cmd == IF branch # "main" THEN <<c("git checkout branch", None)>> ELSE <<>>
        setup ==
            IF agent = "trae-agent"
            THEN <<c("mkdir -p agent/", None), c("git clone", "300")>>
                 \o branch_cmd \o <<c("install_command", "600")>>
            ELSE IF agent = "gemini-cli"
            THEN <<c("install_cmd", "600")>> \o branch_cmd
            ELSE IF agent = "claude-code"
            THEN <<c("install_cmd", "300"), c("path_cmd", None), c("symlink_cmd", None)>>
                 \o branch_cmd
            ELSE <<c("install_cmd", "300"), c("uv tool update-shell", None)>>
                 \o branch_cmd
        checkout_commit ==
            <<c("git reset --hard", "30"), c("git clean -fd", "30"), c("git checkout", "30")>>
        agent_run == IF agent = "trae-agent" THEN <<c("run_cmd", None)>>
               ELSE <<c("run_cmd", None), c("git diff > patch.diff", None)>>
        chown == <<c("chown -R uid:gid /logs", None)>>
        apply == <<c("write_cmd", "30"), c("git apply", "30")>>
        tests == <<c("pytest", "1200")>>
    IN  setup \o checkout_commit \o agent_run \o chown
        \o checkout_commit \o apply \o apply \o tests

CallEvaluateCommands(agent, branch) ==
    /\ call = NoCall
    /\ call' = [op |-> "evaluate", arg |-> [agent |-> agent, branch |-> branch],
                ret |-> EvaluateCommands(agent, branch)]
    /\ UNCHANGED <<parserOutput, test_results>>
    /\ UNCHANGED schedVars

\* config.DOCKER_ENVIRONMENT: a dict, here a function from its keys; the size
\* of the terminal is 80 by 24, the proxy variables are added when the proxy
\* is enabled
DOCKER_ENVIRONMENT(PROXY_ENABLED) ==
    LET base == [k \in {"COLUMNS", "LINES", "HF_HUB_OFFLINE"} |->
                    CASE k = "COLUMNS" -> "80"
                      [] k = "LINES" -> "24"
                      [] OTHER -> "1"]
        proxy == [k \in {"HTTP_PROXY", "http_proxy", "HTTPS_PROXY", "https_proxy"} |->
                    IF k \in {"HTTP_PROXY", "http_proxy"} THEN "http://proxy:8080"
                    ELSE "https://proxy:8443"]
    IN  IF PROXY_ENABLED
        THEN [k \in DOMAIN base \cup DOMAIN proxy |->
                 IF k \in DOMAIN proxy THEN proxy[k] ELSE base[k]]
        ELSE base

\* BaseCommandExecutor.__init__: the value of self.env.  dict.update changes
\* env in place and returns None, and self.env is assigned what it returns
BaseCommandExecutorInit(os_environ, PROXY_ENABLED) ==
    LET other == DOCKER_ENVIRONMENT(PROXY_ENABLED)
        update(d) == [self |-> [k \in DOMAIN d \cup DOMAIN other |->
                                   IF k \in DOMAIN other THEN other[k] ELSE d[k]],
                      ret |-> [type |-> "NoneType"]]
        env == os_environ
    IN  update(env).ret

\* The environment of a command run by LocalCommandExecutor (subprocess.Popen
\* and subprocess.run with env=self.env: None makes the child inherit
\* os.environ) or by DockerCommandExecutor._exec (exec_create with
\* environment=self.env: None adds nothing to the environment of the container)
CallExec(executor, os_environ, PROXY_ENABLED) ==
    LET self_env == BaseCommandExecutorInit(os_environ, PROXY_ENABLED)
        container_environ == [k \in {"PATH"} |-> "/usr/local/bin"]
        inherited == IF executor = "local" THEN os_environ ELSE container_environ
        environment ==
            IF self_env.type = "NoneType" THEN inherited
            ELSE IF executor = "local" THEN self_env.items
            ELSE [k \in DOMAIN inherited \cup DOMAIN self_env.items |->
                     IF k \in DOMAIN self_env.items THEN self_env.items[k]
                     ELSE inherited[k]]
    IN  /\ call = NoCall
        /\ call' = [op |-> "_exec",
                    arg |-> [executor |-> executor, PROXY_ENABLED |-> PROXY_ENABLED],
                    ret |-> environment]
        /\ UNCHANGED <<parserOutput, test_results>>
        /\ UNCHANGED schedVars

\* ContainerOperator.apply_patches(file_changes) up to its call of
\* apply_patches_to_container.  file_changes is a Python value: its type, and
\* the items a for loop over it yields, each with its type (the items of a
\* str are its characters)
ApplyPatches(file_changes) ==
    LET items == file_changes.items
        \* change.get(...): only a dict has get
        no_get == {k \in 1..Len(items) : items[k].type # "dict"}
        complete(change) == /\ change.filename # <<>>
                            /\ change.patch # <<>>
                            /\ change.status # ""
        info(change) == [filename |-> change.filename, status |-> change.status,
                         patch_content |-> change.patch,
                         is_test_file |-> IsTestFile(change.filename)]
        patches[k \in 0..Len(items)] ==
            IF k = 0 THEN <<>>
            ELSE IF complete(items[k]) THEN Append(patches[k - 1], info(items[k]))
            ELSE patches[k - 1]
    IN  IF no_get # {}
        THEN [raised |-> TRUE, exception |-> "AttributeError", patches |-> <<>>]
        ELSE [raised |-> FALSE, exception |-> None, patches |-> patches[Len(items)]]

\* operator.apply_patches(spec.test_patch) for a test_patch of the dataset in
\* one of its encodings: a list of per-file dicts, one of them without a
\* status when incomplete, or the text of a unified diff
CallApplyPatches(encoding, incomplete) ==
    LET hunk == <<<<"@@", " -1,2 +1,2 @@">>, <<"-", "a">>, <<"+", "b">>>>
        change(filename, status) ==
            [type |-> "dict", filename |-> filename, patch |-> hunk, status |-> status]
        list == [type |-> "list",
                 items |-> <<change(<<"tests", "/", "test", "_", "m", ".py">>, "modified"),
                             change(<<"tests", "/", "conftest", ".py">>,
                                    IF incomplete THEN "" ELSE "added")>>]
        str == [type |-> "str",
                items |-> [k \in 1..4 |-> [type |-> "str", char |-> <<"d", "i", "f", "f">>[k]]]]
        file_changes == IF encoding = "list" THEN list ELSE str
    IN  /\ call = NoCall
        /\ call' = [op |-> "apply_patches", arg |-> file_changes,
                    ret |-> ApplyPatches(file_changes)]
        /\ UNCHANGED <<parserOutput, test_results>>
        /\ UNCHANGED schedVars

\* patch_analyzer.is_test_file(filename)
CallIsTestFile(filename) ==
    /\ call = NoCall
    /\ call' = [op |-> "is_test_file", arg |-> filename, ret |-> IsTestFile(filename)]
    /\ UNCHANGED <<parserOutput, test_results>>
    /\ UNCHANGED schedVars

\* patch_analyzer.parse_unified_diff(diff_content): it raises nothing
CallParseUnifiedDiff(diff_content) ==
    /\ call = NoCall
    /\ call' = [op |-> "parse_unified_diff", arg |-> diff_content,
                ret |-> [raised |-> FALSE, exception |-> None,
                         patches |-> ParseUnifiedDiff(diff_content)]]
    /\ UNCHANGED <<parserOutput, test_results>>
    /\ UNCHANGED schedVars

\* patch_analyzer._build_complete_diff(patch)
CallBuildCompleteDiff(patch) ==
    /\ call = NoCall
    /\ call' = [op |-> "_build_complete_diff", arg |-> patch,
                ret |-> BuildCompleteDiff(patch)]
    /\ UNCHANGED <<parserOutput, test_results>>
    /\ UNCHANGED schedVars

\* _run_tests_in_batches: batch_size
batch_size == 250
\* run_tests_in_container: the estimated command length above which the
\* tests are run in batches
CommandLengthLimit == 100000

RunTestsInOneCommand(pytest_args, arg_length, use_xdist, passing) ==
    [commands |-> <<pytest_args>>, matched |-> Range(pytest_args) \cap passing]
\* ContainerOperator.run_tests_in_container from the estimate of the command
\* length on, with _run_tests_in_batches.  The selectors pytest_args are
\* arg_length characters long each, passing are the selectors the outputs
\* report as passed; the result is the selectors of each command executed,
\* in order, and the returned set
RunTestsCommands(pytest_args, arg_length, use_xdist, passing) ==
    LET n == Len(pytest_args)
        \* len(base_cmd_template)
        template_length == IF use_xdist THEN 121 ELSE 113
        estimated_length == template_length + n * (arg_length + 1)
        \* parse_pytest_output(output, test_cases, expected_statuses)
        parse_pytest_output(test_cases) == Range(test_cases) \cap passing
        \* range(0, len(pytest_args), batch_size)
        starts == {i \in 0..(n - 1) : i % batch_size = 0}
        batch(i) == SubSeq(pytest_args, i + 1, IF i + batch_size < n THEN i + batch_size ELSE n)
        count == Cardinality(starts)
        batches == [k \in 1..count |-> batch((k - 1) * batch_size)]
    IN  IF estimated_length > CommandLengthLimit
        THEN [commands |-> batches,
              matched |-> UNION {parse_pytest_output(batches[k]) : k \in 1..count}]
        ELSE [commands |-> <<pytest_args>>,
              matched |-> parse_pytest_output(pytest_args)]

\* operator.run_tests_in_container(repo_name, test_files, [PASSED], use_xdist)
\* for a list of n selectors
CallRunTestsCommands(n, arg_length, use_xdist, passing) ==
    LET pytest_args == [k \in 1..n |-> k]
    IN  /\ call = NoCall
        /\ call' = [op |-> "run_tests_in_container: commands",
                    arg |-> [pytest_args |-> pytest_args, arg_length |-> arg_length,
                             use_xdist |-> use_xdist, passing |-> passing],
                    ret |-> RunTestsCommands(pytest_args, arg_length, use_xdist, passing)]
        /\ UNCHANGED <<parserOutput, test_results>>
        /\ UNCHANGED schedVars

\* docker_executor.execute(command, timeout=timeout)
CallExecute(exit_code, output, timeout) ==
    /\ call = NoCall
    /\ call' = [op |-> "execute",
                arg |-> [exit_code |-> exit_code, output |-> output, timeout |-> timeout],
                ret |-> Execute(exit_code, output, timeout)]
    /\ UNCHANGED <<parserOutput, test_results>>
    /\ UNCHANGED schedVars

\* operator.checkout_commit(commit, exclude_file), its three commands ending
\* with exit_codes
CallCheckoutCommit(exit_codes, exclude_file) ==
    /\ call = NoCall
    /\ call' = [op |-> "checkout_commit",
                arg |-> [exit_codes |-> exit_codes, exclude_file |-> exclude_file],
                ret |-> CheckoutCommit(exit_codes, exclude_file)]
    /\ UNCHANGED <<parserOutput, test_results>>
    /\ UNCHANGED schedVars

\* operator.run_tests_in_container(repo_name, tests, [PASSED])
CallRunTestsInContainer(exit_code, output, tests) ==
    /\ call = NoCall
    /\ call' = [op |-> "run_tests_in_container",
                arg |-> [exit_code |-> exit_code, output |-> output, tests |-> tests],
                ret |-> RunTestsInContainer(exit_code, output, tests)]
    /\ UNCHANGED <<parserOutput, test_results>>
    /\ UNCHANGED schedVars

\* one call, made while no call has been recorded
ExecutorNext ==
    \/ call = NoCall /\ \E exit_code \in ExitCodes, output \in CommandOutputs, timeout \in Timeouts :
          CallExecute(exit_code, output, timeout)
    \/ call = NoCall /\ \E exit_codes \in [1..3 -> ExitCodes],
          exclude_file \in {<<>>, <<"patch.diff">>, <<"patch.diff", "logs">>} :
          CallCheckoutCommit(exit_codes, exclude_file)
    \/ call = NoCall /\ \E exit_code \in ExitCodes, output \in PytestOutputs :
          CallRunTestsInContainer(exit_code, output, {T1, T2})
    \/ call = NoCall /\ \E n \in {1, 250, 251, 300, 501}, arg_length \in {20, 332, 400, 99878, 99879},
          use_xdist \in BOOLEAN, passing \in SUBSET {1, 250, 251, 300} :
          CallRunTestsCommands(n, arg_length, use_xdist, passing)
    \/ call = NoCall /\ \E diff_content \in DiffContents : CallParseUnifiedDiff(diff_content)
    \/ call = NoCall /\ \E filename \in {<<"src", "/", "con", "test", "/", "utils", ".py">>,
                         <<"la", "test", ".py">>,
                         <<"tests", "/", "test", "_", "m", ".py">>,
                         <<"test", "_", "m", ".py">>,
                         <<"src", "/", "m", "_", "test", ".py">>,
                         <<"src", "/", "m", ".py">>,
                         <<"testing", "/", "m", ".py">>,
                         <<"pkg", "/", "Tests", "/", "m", ".py">>,
                         <<"tests", "/", "data", ".json">>} :
          CallIsTestFile(filename)
    \/ call = NoCall /\ \E agent \in SupportedAgents, agent_output \in {"", "done"},
          exit_codes \in [cli : {0, 1, 2}, tee : {0, 1}, diff : {0, 128}] :
          CallRun(agent, exit_codes, agent_output)
    \/ call = NoCall /\ \E agent \in SupportedAgents, branch \in {"main", "dev"} :
          CallEvaluateCommands(agent, branch)
    \/ call = NoCall /\ \E executor \in {"local", "docker"}, PROXY_ENABLED \in BOOLEAN,
          os_environ \in {[k \in {"PATH"} |-> "/usr/bin"],
                          [k \in {"PATH", "HF_HUB_OFFLINE"} |->
                              IF k = "PATH" THEN "/usr/bin" ELSE "0"]} :
          CallExec(executor, os_environ, PROXY_ENABLED)
    \/ call = NoCall /\ \E encoding \in {"list", "str"}, incomplete \in BOOLEAN :
          CallApplyPatches(encoding, incomplete)
    \/ call = NoCall /\ \E patch \in PatchInfos : CallBuildCompleteDiff(patch)
    \/ call = NoCall /\ \E outcomes \in [1..3 -> [raises : BOOLEAN, write : {0, 1, 124}, apply : {0, 1}]] :
          CallApplyPatchesToContainer(outcomes)

Init == ParserInit /\ SchedInit

\* one scheduler process, its pool threads interleaved step by step
Spec == Init /\ [][Next]_vars

\* scheduler processes one after the other, _eval_spec as one step
SpecResume == Init /\ [][ResumeNext]_vars

\* the pytest result parser
SpecParser == Init /\ [][ParserNext]_vars

\* one scheduler process that receives signals
SpecSignal == Init /\ [][SignalNext]_vars

\* the command executor, the container operations and the patch analyzer
SpecExecutor == Init /\ [][ExecutorNext]_vars

\* the pool threads up to the return of create_container, statement by statement
CreateNext ==
    \/ Evaluate
    \/ \E w \in Workers : TakeTask(w)
    \/ \E w \in Workers : CreateContainerSteps(w)

SpecCreate == Init /\ [][CreateNext]_vars

\* the main thread of evaluate: the submission, the as_completed loop, the end
EvaluateThread ==
    \/ Evaluate
    \/ CollectFuture
    \/ SaveDump
    \/ EvaluationCompleted

\* every container command returns and the operating system schedules every
\* thread: a pool thread or the main thread that can take a step takes one
Fairness ==
    /\ \A w \in Workers : WF_vars(WorkerNext(w))
    /\ WF_vars(EvaluateThread)

\* one scheduler process whose threads all keep running
SpecFair == Init /\ [][Next]_vars /\ Fairness

(***************************************************************************)
(* The properties.                                                         *)
(***************************************************************************)
\* the thread w is inside the with block of lock_repo
InLockedSection(w) ==
    worker[w].pc \in {"setup", "checkout", "run", "chown", "phase_checkout",
                      "phase_patch", "phase_test_patch", "phase_tests", "release"}

\* the thread w waits in the loop of lock_repo
WaitsForLock(w) == worker[w].pc = "lock"

\* C1: of the threads that called lock_repo with the same repo_name at most
\* one is inside the locked section, and it is the one whose lock file
\* exists: no other thread enters until that file is unlinked.
RepoLockMutualExclusion ==
    \A w1 \in Workers :
        InLockedSection(w1) =>
            /\ lockFile[RepoName(SpecOf(w1))] = w1
            /\ \A w2 \in Workers \ {w1} :
                  InLockedSection(w2) => RepoName(SpecOf(w2)) # RepoName(SpecOf(w1))

\* one thread is inside the locked section while another waits for the lock
\* of the same repository
LockContended ==
    \E w1, w2 \in Workers :
        /\ w1 # w2
        /\ InLockedSection(w1)
        /\ WaitsForLock(w2)
        /\ RepoName(SpecOf(w1)) = RepoName(SpecOf(w2))

\* the thread w is at an operation on the working tree swap/<repo_name>: a
\* checkout, the agent run and its diff capture, the application of
\* patch.diff or of the test patch, a test run
OperatesOnTree(w) ==
    worker[w].pc \in {"checkout", "run", "phase_checkout", "phase_patch",
                      "phase_test_patch", "phase_tests"}

\* C2: a thread operates on the working tree of a repository only while it
\* holds the lock of that repository, and no two threads operate on the same
\* working tree at the same time.
ExclusiveWorkingTree ==
    \A w1 \in Workers :
        OperatesOnTree(w1) =>
            /\ lockFile[RepoName(SpecOf(w1))] = w1
            /\ \A w2 \in Workers \ {w1} :
                  OperatesOnTree(w2) => RepoName(SpecOf(w2)) # RepoName(SpecOf(w1))

\* a thread runs the PASS_TO_PASS tests in the tree another thread has
\* created its container for and wants to work in
TreeWantedWhileTested ==
    \E w1, w2 \in Workers :
        /\ w1 # w2
        /\ worker[w1].pc = "phase_tests"
        /\ worker[w1].test_phase = "p2p"
        /\ WaitsForLock(w2)
        /\ worker[w2].container # 0
        /\ RepoName(SpecOf(w1)) = RepoName(SpecOf(w2))

\* the records of the results file of this process
Persisted ==
    IF files[EXP_SUFFIX].exists /\ files[EXP_SUFFIX].complete
    THEN Range(files[EXP_SUFFIX].content)
    ELSE {}

\* C3: when the scheduler has completed, every (agent, spec) pair whose
\* evaluation failed has a persisted record with success=false and a
\* non-empty error string.
FailedEvaluationsRecorded ==
    phase = "done" =>
        \A pair \in failed :
            \E r \in Persisted :
                /\ r.agent = pair[1]
                /\ r.instance_id = pair[2]
                /\ r.success = FALSE
                /\ IsErrorRecord(r)
                /\ r.error # ""

\* C4: at every instant the results file is absent or a complete JSON array.
ResultsFileNeverTruncated ==
    \A t \in DOMAIN files : files[t].exists => files[t].complete

\* the (agent, instance_id) keys of the dataset the scheduler works on: the
\* agents to evaluate, on the specs within the per-repo cap
DatasetKeys ==
    {<<a, Dataset[i].instance_id>> :
        a \in Range(AgentsToEvaluate(agent_names)),
        i \in {j \in SpecIds :
                 Cardinality({k \in 1..j : Dataset[k].repo = Dataset[j].repo})
                    <= MAX_SPECS_PER_REPO}}

\* the keys of the records of a results file
FileKeys(file) ==
    IF file.exists /\ file.complete
    THEN {<<r.agent, r.instance_id>> : r \in Range(file.content)}
    ELSE {}

\* C5: a scheduler process started after an earlier one has persisted a
\* results file with every key of its dataset and agent list, and no other,
\* builds an empty work list and creates no container.
CacheResumptionIdempotence ==
    \A t \in DOMAIN files :
        (/\ run > 1
         /\ phase # "start"
         /\ t < EXP_SUFFIX
         /\ FileKeys(files[t]) = DatasetKeys)
        => (all_specs = {} /\ created = {})

\* C6: the work list holds, for each spec within the per-repo cap, exactly
\* the agents whose key was not loaded; a loaded pair is not evaluated again,
\* no container is created for a spec all of whose agents were loaded, and
\* every agent that was not loaded is evaluated, or fails, before the
\* scheduler completes.
PartialResumption ==
    phase # "start" =>
        /\ \A key \in DatasetKeys :
              (\E it \in all_specs :
                    /\ Dataset[it.spec].instance_id = key[2]
                    /\ key[1] \in Range(it.agents))
              <=> key \notin evaluated_keys
        /\ \A it \in all_specs : Pairs(it) \subseteq DatasetKeys
        /\ evaluated \cap evaluated_keys = {}
        /\ \A i \in created :
              \E key \in DatasetKeys \ evaluated_keys : key[2] = Dataset[i].instance_id
        /\ phase = "done" =>
              \A it \in all_specs : Pairs(it) \subseteq (evaluated \cup failed)

\* a process that loaded the key of one agent of a spec has evaluated another
\* agent of that spec, and only that one
ResumedPartially ==
    /\ phase = "done"
    /\ \E it \in all_specs :
          /\ Len(it.agents) < Len(AgentsToEvaluate(agent_names))
          /\ Pairs(it) \subseteq evaluated
          /\ \E key \in evaluated_keys : key[2] = Dataset[it.spec].instance_id

\* C7: in every record of an evaluation whose agent succeeded, success_f2p
\* tells whether every expected FAIL_TO_PASS test is among the passed ones,
\* success_p2p the same for PASS_TO_PASS, and success is their conjunction.
VerdictComputation ==
    \A k \in 1..Len(all_results) :
        LET r == all_results[k]
        IN  ~IsErrorRecord(r) =>
               /\ r.success_f2p <=> (Range(r.expected_f2p_tests) \subseteq r.passed_f2p_tests)
               /\ r.success_p2p <=> (Range(r.expected_p2p_tests) \subseteq r.passed_p2p_tests)
               /\ r.success <=> (r.success_f2p /\ r.success_p2p)

\* expected F2P [t1, t2] with passed [t1]: success_f2p and success are false
PartialPassRecorded ==
    \E k \in 1..Len(all_results) :
        LET r == all_results[k]
        IN  /\ ~IsErrorRecord(r)
            /\ r.expected_f2p_tests = <<T1, T2>>
            /\ r.passed_f2p_tests = {T1}
            /\ ~r.success_f2p
            /\ ~r.success

\* the status the aggregation rule gives a non-empty set of variant statuses
RuleStatus(statuses) ==
    IF statuses \cap {"FAILED", "ERROR", "UNKNOWN"} # {} THEN "FAILED"
    ELSE IF statuses \subseteq {"PASSED", "SKIPPED"} /\ "PASSED" \in statuses THEN "PASSED"
    ELSE IF statuses = {"SKIPPED"} THEN "SKIPPED"
    ELSE "UNKNOWN"

\* C8: the aggregated status of a non-empty set of variants is FAILED if any
\* is FAILED, ERROR or UNKNOWN, else PASSED if all are PASSED or SKIPPED and
\* one is PASSED, else SKIPPED if all are SKIPPED, else UNKNOWN.
AggregationRule ==
    (call.op = "aggregate" /\ DOMAIN call.arg # {}) =>
        call.ret = RuleStatus({call.arg[p] : p \in DOMAIN call.arg})

\* passed and skipped variants were aggregated to PASSED
AggregatedPassedWithSkipped ==
    /\ call.op = "aggregate"
    /\ \E p, q \in DOMAIN call.arg : call.arg[p] = "PASSED" /\ call.arg[q] = "SKIPPED"
    /\ call.ret = "PASSED"

\* the portion of a test path before its first '['
BeforeBracket(path) ==
    IF \E i \in 1..Len(path) : path[i] = "["
    THEN SubSeq(path, 1, (CHOOSE i \in 1..Len(path) :
                              path[i] = "[" /\ \A j \in 1..(i - 1) : path[j] # "[") - 1)
    ELSE path

\* C9: Query returns the status recorded for exactly the pattern if there is
\* one, else the aggregation of the entries whose base name equals the
\* pattern, so that a parameterized pattern with no exact entry is not
\* satisfied by the other variants of its base test.
QuerySemantics ==
    call.op = "query_tests" =>
        LET pattern == call.arg
            entries == {p \in DOMAIN test_results : BeforeBracket(p) = pattern}
        IN  call.ret[pattern] =
               IF pattern \in DOMAIN test_results THEN test_results[pattern]
               ELSE IF entries # {} THEN RuleStatus({test_results[p] : p \in entries})
               ELSE "UNKNOWN"

\* C10: when the agent run reports failure, or a step raises before any test
\* command, no F2P or P2P test command is issued for the pair and the
\* evaluation goes to a record with success=false whose error field holds
\* the agent output or the error text.
AgentFailureSkipsTests ==
    \A w \in Workers :
        worker[w].failed_before_tests =>
            /\ worker[w].tests_run = 0
            /\ worker[w].pc \in {"chown", "release"}
            /\ worker[w].pc = "release" =>
                  /\ IsErrorRecord(worker[w].result)
                  /\ worker[w].result.success = FALSE
                  /\ worker[w].result.error \in
                        {worker[w].agent_output, ExceptionText("Exception")}

\* the agent exited non-zero and its output is the error of the record
AgentFailureRecorded ==
    \E w \in Workers :
        /\ worker[w].pc = "release"
        /\ worker[w].failed_before_tests
        /\ ~worker[w].agent_success
        /\ worker[w].agent_output = "agent output"
        /\ worker[w].result.error = "agent output"

\* C11: when the agent succeeded and both test phases ran, the record of the
\* evaluation is the verdict record, with the computed success values and
\* with token counts that are numbers or null, whatever the agent and its
\* output: token parsing never makes it an error record.
TokenParsingKeepsVerdict ==
    \A w \in Workers :
        (worker[w].test_phase = "done" /\ worker[w].agent_success) =>
            /\ ~IsErrorRecord(worker[w].result)
            /\ worker[w].result.success =
                  (worker[w].result.success_f2p /\ worker[w].result.success_p2p)
            /\ {worker[w].result.total_tokens, worker[w].result.input_tokens,
                worker[w].result.output_tokens}
                  \subseteq {None, TokenCounts.total, TokenCounts.input, TokenCounts.output}

\* C12: a command that was given a timeout and exits with 124 or 137 reaches
\* the caller of execute as a raised TestExecutionTimeout, not as an
\* (exit code, output) pair, and the checkout or the test run it belongs to
\* raises, so that the evaluation is recorded as failed with an error.
TimeoutPropagation ==
    /\ (/\ call.op = "execute"
        /\ call.arg.timeout # None
        /\ call.arg.exit_code \in {124, 137})
       => (call.ret.raised /\ call.ret.exception = "TestExecutionTimeout")
    /\ (/\ call.op = "checkout_commit"
        /\ \E k \in 1..3 : /\ call.arg.exit_codes[k] \in {124, 137}
                           /\ \A j \in 1..(k - 1) : call.arg.exit_codes[j] = 0)
       => call.ret.raised
    /\ (/\ call.op = "run_tests_in_container"
        /\ call.arg.exit_code \in {124, 137})
       => call.ret.raised

\* C13: a worker creates the container of its spec only after it has acquired
\* the lock of the repository: the thread that has just created its container
\* and has not yet evaluated an agent holds the lock.
LockAcquiredBeforeContainer ==
    \A w \in Workers :
        (worker[w].container # 0 /\ worker[w].pc \in {"track", "construct"}) =>
            lockFile[LockName(SpecOf(w))] = w

\* C14: the lock is held over the whole work item: a worker that has
\* evaluated one agent of its work item and goes on to the next still holds
\* the lock of the repository, so that no other worker acquires it in between.
LockSpansWorkItem ==
    \A w \in Workers :
        (worker[w].pc = "lock" /\ worker[w].idx > 1) =>
            lockFile[LockName(SpecOf(w))] = w

\* C15: the container of a spec is removed only after the records of that
\* spec are in the results file: no future whose results are still to be
\* persisted belongs to a spec whose container is gone.
ContainerOutlivesPersistence ==
    \A f \in completed :
        docker[f.spec] = "removed" => Range(f.results) \subseteq Persisted

\* C16: while cleanup_in_progress is set, from the handler's write to the end
\* of the global cleanup pass, no worker calls cleanup_container on its
\* container.
WorkerCleanupIsNoOpDuringGlobalCleanup ==
    [][cleanup_in_progress =>
          \A w \in Workers : ~(CallsCleanupContainer(w) /\ worker'[w].pc = "idle")]_vars

\* the mutexes of the accesses to active_containers and cleanup_in_progress
\* that are about to happen: a worker's append, a worker's read of the flag,
\* the handler's test-and-set and reset of the flag, the handler's copy of the
\* list and its removals
PendingMutexes ==
    {AppendMutex : w \in {v \in Workers : worker[v].pc = "track"}}
    \cup {FlagMutex : w \in {v \in Workers : worker[v].pc = "finally"}}
    \cup (IF signal_handler.pc = "on_signal" THEN {FlagMutex} ELSE {})
    \cup (IF signal_handler.pc = "cleanup_all" THEN {CleanupAllMutex} ELSE {})
    \cup (IF signal_handler.pc = "cleanup_loop"
          THEN (IF signal_handler.snapshot # <<>> THEN {CleanupAllMutex} ELSE {FlagMutex})
          ELSE {})

\* C17: every access to the active-container set and to cleanup_in_progress
\* is made under one and the same mutex, so that the accesses of the workers
\* and of the signal handler exclude each other.
SingleMutexForCleanupState ==
    /\ None \notin PendingMutexes
    /\ Cardinality(PendingMutexes) <= 1

\* C18: the process that received a signal exits with code 0, starts no
\* evaluation once the global cleanup pass has completed, and a signal that
\* arrives while the handler runs starts no second cleanup pass.
ExitAfterSignal ==
    [][/\ phase' = "exited" => signal_handler'.exit_code = "0"
       /\ phase = "exiting" =>
             \A w \in Workers : ~(worker[w].pc = "idle" /\ worker'[w].pc # "idle")
       /\ (signal_handler.pc # "idle" /\ signal_handler'.signals > signal_handler.signals) =>
             /\ signal_handler'.passes = signal_handler.passes
             /\ signal_handler'.pc = signal_handler.pc]_vars

\* every submitted work item is over: each of its pairs was evaluated or
\* recorded as failed, no pool thread is inside _eval_spec, no lock file is
\* left, and evaluate has returned
PoolCompleted ==
    /\ phase = "done"
    /\ queue = {}
    /\ \A w \in Workers : worker[w].pc = "idle"
    /\ \A n \in LockNames : lockFile[n] = 0
    /\ \A item \in all_specs : Pairs(item) \subseteq evaluated \cup failed

\* C19: whatever fails in a work item (the container creation, an agent, an
\* exception in the worker), every submitted work item eventually completes
\* with its lock released and the scheduler reaches completion: no worker
\* waits for a repo lock for ever.
PoolSurvivesFailuresAndTerminates == <>[]PoolCompleted

\* the scheduler completed although a work item failed, and a pair of another
\* work item was evaluated without failure
CompletedDespiteFailure ==
    /\ PoolCompleted
    /\ \E p \in failed : \E q \in evaluated \ failed : p[2] # q[2]

\* the operations of one test phase of the thread w, in the order of the
\* claim: the checkout that keeps patch.diff, patch.diff, the test_patch of
\* the dataset when there is one, the test run when there are tests
PhaseOpsBeforeTests(w) ==
    <<TreeOp(w, "checkout_commit", <<"patch.diff">>),
      TreeOp(w, "apply_patch_file_to_container", <<>>)>>
    \o (IF Dataset[SpecOf(w)].test_patch
        THEN <<TreeOp(w, "apply_patches", <<>>)>> ELSE <<>>)

PhaseOps(w, tests) ==
    PhaseOpsBeforeTests(w)
    \o (IF tests = <<>> THEN <<>> ELSE <<TreeOp(w, "run_tests_in_container", <<>>)>>)

\* C20: in the F2P and in the P2P phase the operations on the working tree
\* are, in this order and with no operation of any thread in between, the
\* checkout of the base commit with patch.diff excluded from the clean, the
\* application of patch.diff, the application of the test_patch, the test
\* run; and the patch.diff a phase is about to apply, the P2P phase included,
\* is the one that was there when the agent run returned.
TestPhaseOrdering ==
    \A w \in Workers :
        /\ worker[w].pc = "phase_patch" =>
              /\ tree[TreeOf(w)].ops = SubSeq(PhaseOpsBeforeTests(w), 1, 1)
              /\ tree[TreeOf(w)].patch_diff = worker[w].captured
              /\ worker[w].test_phase = "p2p" => tree[TreeOf(w)].patch_diff.exists
        /\ worker[w].pc = "phase_test_patch" =>
              tree[TreeOf(w)].ops = SubSeq(PhaseOpsBeforeTests(w), 1, 2)
        /\ worker[w].pc = "phase_tests" =>
              tree[TreeOf(w)].ops = PhaseOpsBeforeTests(w)
        /\ (worker[w].pc = "phase_checkout" /\ worker[w].test_phase = "p2p") =>
              tree[TreeOf(w)].ops =
                  PhaseOps(w, TestList(Dataset[SpecOf(w)].FAIL_TO_PASS))
        /\ (worker[w].pc = "release" /\ worker[w].test_phase = "done") =>
              tree[TreeOf(w)].ops =
                  PhaseOps(w, TestList(Dataset[SpecOf(w)].PASS_TO_PASS))

\* the P2P phase of a thread has applied the patch.diff of its agent run
\* while another thread waits for the lock of the same repository
P2PAppliedCapturedPatch ==
    \E w \in Workers :
        /\ worker[w].pc = "phase_test_patch"
        /\ worker[w].test_phase = "p2p"
        /\ worker[w].captured.exists
        /\ tree[TreeOf(w)].patch_diff = worker[w].captured
        /\ \E v \in Workers \ {w} :
              worker[v].pc = "lock" /\ TreeOf(v) = TreeOf(w)

\* C21: in the test phases no record of the agent's patch.diff that is
\* classified as a test file is applied to the working tree, every other
\* record is, and a test_patch of the dataset is applied by the harness in
\* both phases, right after the agent's diff and before the tests.
TestsComeOnlyFromHarness ==
    \A w \in Workers :
        /\ worker[w].pc \in {"phase_test_patch", "phase_tests"} =>
              LET t == tree[TreeOf(w)]
              IN  /\ \A k \in 1..Len(t.applied) : ~IsTestFile(t.applied[k].filename)
                  /\ \A r \in Range(PatchRecords(t.patch_diff)) :
                        ~IsTestFile(r.filename) => r \in Range(t.applied)
        /\ (worker[w].pc = "phase_tests" /\ Dataset[SpecOf(w)].test_patch) =>
              LET ops == tree[TreeOf(w)].ops
              IN  /\ Len(ops) >= 2
                  /\ ops[Len(ops)] = TreeOp(w, "apply_patches", <<>>)
                  /\ ops[Len(ops) - 1] = TreeOp(w, "apply_patch_file_to_container", <<>>)

\* the P2P phase is about to run its tests on a tree to which the source
\* record of a patch.diff with a test record was applied, not the test record
TestRecordOfAgentLeftOut ==
    \E w \in Workers :
        /\ worker[w].pc = "phase_tests"
        /\ worker[w].test_phase = "p2p"
        /\ Dataset[SpecOf(w)].test_patch
        /\ tree[TreeOf(w)].applied # <<>>
        /\ \E r \in Range(PatchRecords(tree[TreeOf(w)].patch_diff)) :
              r.is_test_file /\ r \notin Range(tree[TreeOf(w)].applied)

\* the lines of a text that start with diff --git, in order
GitLines(text) ==
    SelectSeq(text, LAMBDA line : line # <<>> /\ line[1] = "diff --git")

\* C22: parse_unified_diff yields one record per diff --git boundary of its
\* input, the records in the order of the blocks, each bearing the file name
\* its block's diff --git line ends with.
ParseYieldsOneRecordPerBlock ==
    call.op = "parse_unified_diff" =>
        LET git_lines == GitLines(call.arg)
            patches == call.ret.patches
        IN  /\ Len(patches) = Len(git_lines)
            /\ \A i \in 1..Len(patches) :
                  LET name == patches[i].filename
                      line == git_lines[i]
                  IN  /\ Len(name) < Len(line)
                      /\ SubSeq(line, Len(line) - Len(name) + 1, Len(line)) = name

\* the text has a block that is not empty and has no valid diff --git header:
\* its first line that is not blank is no diff --git line, or a diff --git
\* line of it does not name a/<old> and b/<new>
LacksValidHeader(text) ==
    LET solid == {k \in 1..Len(text) : \E j \in 1..Len(text[k]) : text[k][j] # " "}
        valid(line) == /\ Len(line) >= 5
                       /\ line[2] = " a/"
                       /\ \E k \in 4..(Len(line) - 1) : line[k] = " b/"
    IN  \/ /\ solid # {}
           /\ \E k \in solid : /\ \A j \in solid : k <= j
                                /\ text[k][1] # "diff --git"
        \/ \E k \in 1..Len(GitLines(text)) : ~valid(GitLines(text)[k])

\* C23: parse_unified_diff fails with a MalformedDiff error when a non-empty
\* block of its input lacks a valid diff --git header; it does not drop the
\* block and return the other records.
MalformedDiffsRejected ==
    (call.op = "parse_unified_diff" /\ LacksValidHeader(call.arg)) =>
        (call.ret.raised /\ call.ret.exception = "MalformedDiff")

\* C24: parsing the diff _build_complete_diff builds from a PatchInfo yields
\* exactly one record, with the filename, the status, the patch_content and
\* the old_filename of that PatchInfo.
ParseRebuildRoundTrip ==
    call.op = "_build_complete_diff" =>
        LET patches == ParseUnifiedDiff(call.ret)
        IN  /\ Len(patches) = 1
            /\ patches[1].filename = call.arg.filename
            /\ patches[1].status = call.arg.status
            /\ patches[1].patch_content = call.arg.patch_content
            /\ patches[1].old_filename = call.arg.old_filename

\* C25: apply_patches_to_container attempts every record in order: the write
\* command of each record is run unless building its diff raises, its patch
\* command is run when the write command exited 0, whatever happened to the
\* records before it; and the returned list is exactly the filenames of the
\* records whose patch command was run and exited 0, in input order.
BestEffortApply ==
    call.op = "apply_patches_to_container" =>
        LET patches == call.arg.patches
            outcomes == call.arg.outcomes
            ran(k, command) ==
                \E c \in 1..Len(call.ret.commands) :
                    call.ret.commands[c] = [patch |-> k, command |-> command]
            patched == {k \in 1..Len(patches) : ran(k, "patch") /\ outcomes[k].apply = 0}
            names[k \in 0..Len(patches)] ==
                IF k = 0 THEN <<>>
                ELSE IF k \in patched THEN Append(names[k - 1], patches[k].filename)
                ELSE names[k - 1]
        IN  /\ \A k \in 1..Len(patches) :
                  /\ ran(k, "base64 -d") <=> ~outcomes[k].raises
                  /\ ran(k, "patch") <=> (~outcomes[k].raises /\ outcomes[k].write = 0)
            /\ \A c, d \in 1..Len(call.ret.commands) :
                  c < d => call.ret.commands[c].patch <= call.ret.commands[d].patch
            /\ call.ret.applied_files = names[Len(patches)]

\* the first record raised, the write command of the second failed, and the
\* third record was still applied and is the one returned
AppliedAfterFailures ==
    /\ call.op = "apply_patches_to_container"
    /\ call.arg.outcomes[1].raises
    /\ ~call.arg.outcomes[2].raises /\ call.arg.outcomes[2].write # 0
    /\ call.ret.applied_files = <<call.arg.patches[3].filename>>

\* C26: when the estimated command length exceeds 100,000 characters the
\* selectors are run in consecutive batches of at most 250, one command per
\* batch and in order (at least two commands for 300 selectors), every
\* selector is in exactly one batch, and the returned set is the union of the
\* sets parsed for the batches; when the estimate is at most 100,000 there
\* is exactly one command, with all the selectors.
CommandLengthBatching ==
    call.op = "run_tests_in_container: commands" =>
        LET pytest_args == call.arg.pytest_args
            commands == call.ret.commands
            estimate == (IF call.arg.use_xdist THEN 121 ELSE 113)
                        + Len(pytest_args) * (call.arg.arg_length + 1)
            joined[k \in 0..Len(commands)] ==
                IF k = 0 THEN <<>> ELSE joined[k - 1] \o commands[k]
        IN  /\ estimate > 100000 =>
                  /\ \A k \in 1..Len(commands) : Len(commands[k]) \in 1..250
                  /\ joined[Len(commands)] = pytest_args
                  /\ Len(pytest_args) = 300 => Len(commands) >= 2
                  /\ call.ret.matched =
                        UNION {Range(commands[k]) \cap call.arg.passing : k \in 1..Len(commands)}
            /\ estimate <= 100000 =>
                  /\ commands = <<pytest_args>>
                  /\ call.ret.matched = Range(pytest_args) \cap call.arg.passing

\* 300 selectors whose command is too long were run in two commands, and a
\* selector of each is in the returned set
RanInTwoBatches ==
    /\ call.op = "run_tests_in_container: commands"
    /\ Len(call.arg.pytest_args) = 300
    /\ Len(call.ret.commands) = 2
    /\ {1, 251} \subseteq call.ret.matched

\* C27: checkout_commit runs git reset --hard, then git clean -fd with one
\* -e <f> per excluded file, then git checkout <commit>, in this order; the
\* first of them that exits non-zero or times out makes it raise
\* ContainerOperationError with none of the later commands run; it returns
\* normally only when all three were run and exited 0.
CheckoutAllOrNothing ==
    call.op = "checkout_commit" =>
        LET exit_codes == call.arg.exit_codes
            exclude_file == call.arg.exclude_file
            commands == call.ret.commands
            ran == Len(commands)
        IN  /\ ran \in 1..3
            /\ commands[1] = <<"git reset --hard">>
            /\ ran >= 2 =>
                  /\ Len(commands[2]) = 1 + 2 * Len(exclude_file)
                  /\ commands[2][1] = "git clean -fd"
                  /\ \A k \in 1..Len(exclude_file) :
                        /\ commands[2][2 * k] = "-e"
                        /\ commands[2][2 * k + 1] = exclude_file[k]
            /\ ran = 3 => commands[3] = <<"git checkout", "commit_hash">>
            /\ \A k \in 1..(ran - 1) : exit_codes[k] = 0
            /\ ran < 3 => exit_codes[ran] # 0
            /\ IF exit_codes[ran] # 0
               THEN call.ret.raised /\ call.ret.exception = "ContainerOperationError"
               ELSE ~call.ret.raised /\ ran = 3

\* git clean -fd -e patch.diff timed out after a successful git reset:
\* checkout_commit raised and git checkout was not run
CheckoutStoppedAtClean ==
    /\ call.op = "checkout_commit"
    /\ call.arg.exit_codes = <<0, 124, 0>>
    /\ call.arg.exclude_file = <<"patch.diff">>
    /\ call.ret.raised
    /\ Len(call.ret.commands) = 2

\* C28: a test_patch that is a list of per-file records and one that is the
\* text of a unified diff are both accepted: apply_patches raises for
\* neither, so that the evaluation goes on to the tests and does not end in
\* the error record of a raised exception.
BothPatchEncodingsAccepted ==
    call.op = "apply_patches" => ~call.ret.raised

\* C29: every command run through the local executor or the container
\* executor gets an environment that contains COLUMNS, LINES and
\* HF_HUB_OFFLINE=1, and the proxy variables when the proxy is enabled.
EnvironmentInjected ==
    call.op = "_exec" =>
        /\ {"COLUMNS", "LINES", "HF_HUB_OFFLINE"} \subseteq DOMAIN call.ret
        /\ call.ret["HF_HUB_OFFLINE"] = "1"
        /\ call.arg.PROXY_ENABLED =>
               {"HTTP_PROXY", "http_proxy", "HTTPS_PROXY", "https_proxy"}
                   \subseteq DOMAIN call.ret

\* C30: for every agent, run returns success = true exactly when the agent's
\* CLI exited with code 0, together with the captured output: a non-zero exit
\* of the CLI gives success = false also when its output is piped through
\* another command, and the capture of the diff does not change success.
RunSuccessIsCliExit ==
    call.op = "run" =>
        /\ call.ret.success <=> (call.arg.exit_codes.cli = 0)
        /\ call.ret.output = call.arg.agent_output

\* C31: every shell command that the evaluation of an agent issues (install,
\* run, capture of the diff, chown of the logs, checkout, write and apply of
\* a patch, tests) is executed with an explicit timeout.
EveryCommandHasTimeout ==
    call.op = "evaluate" =>
        \A k \in 1..Len(call.ret) : call.ret[k].timeout # None

\* C32: when several pool threads call create_container on the shared
\* manager, the container each of them gets is created by the cache manager
\* constructed for its own spec, under every interleaving.
ContainerCreationRaceFree ==
    \A w \in Workers :
        worker[w].pc = "track" => worker[w].container = SpecOf(w)

CleanedUpAtMostOnce ==
    /\ \A k \in 1..Len(active_containers) :
           docker[active_containers[k]] # "removed"
    /\ (signal_handler.pc = "cleanup_loop" /\ signal_handler.snapshot # <<>>) =>
           docker[Head(signal_handler.snapshot)] # "removed"
    /\ \A w \in Workers :
           CallsCleanupContainer(w) => docker[worker[w].container] # "removed"

\* the container c was kept at the prompt of cleanup_all: it runs, the thread
\* that owns it has tracked it and is still in _eval_spec, and cleanup_all has
\* taken it out of active_containers
KeptAtPrompt(c) ==
    /\ docker[c] = "running"
    /\ c \notin Range(active_containers)
    /\ ~(signal_handler.pc = "cleanup_loop" /\ c \in Range(signal_handler.snapshot))
    /\ \E w \in Workers :
          /\ worker[w].container = c
          /\ worker[w].pc \in {"construct", "finally", "cleanup"}

\* C35: a container the user chose to keep at the prompt of the cleanup a
\* signal started is not stopped and removed afterwards by the thread that
\* owns it, also after the handler has reset cleanup_in_progress.
KeptContainerStays ==
    [][\A c \in SpecIds : KeptAtPrompt(c) => docker'[c] # "removed"]_vars

\* C36: every test command, each command of a batch included, has an
\* estimated length (the base command plus, for each of its selectors, the
\* length of the selector plus one) of at most 100,000 characters.
EveryCommandWithinLengthLimit ==
    call.op = "run_tests_in_container: commands" =>
        \A k \in 1..Len(call.ret.commands) :
            (IF call.arg.use_xdist THEN 121 ELSE 113)
            + Len(call.ret.commands[k]) * (call.arg.arg_length + 1) <= 100000

\* C37: a file is classified as a test file only if its base name is
\* test_*.py or *_test.py, or one of its directory segments is test, tests
\* or testing: a source file whose path has the letters test inside another
\* word (src/contest/utils.py, latest.py) is classified as source.
TestFileClassification ==
    call.op = "is_test_file" =>
        LET filename == call.arg
            n == Len(filename)
            slashes == {k \in 1..n : filename[k] = "/"}
            last == IF slashes = {} THEN 0
                    ELSE CHOOSE k \in slashes : \A j \in slashes : j <= k
            base == SubSeq(filename, last + 1, n)
            b == Len(base)
            test_prefix == b >= 3 /\ base[1] = "test" /\ base[2] = "_" /\ base[b] = ".py"
            test_suffix == b >= 3 /\ base[b - 2] = "_" /\ base[b - 1] = "test"
                           /\ base[b] = ".py"
            test_directory ==
                \E k \in 1..n :
                    /\ filename[k] \in {"test", "tests", "testing", "Test", "Tests"}
                    /\ k = 1 \/ filename[k - 1] = "/"
                    /\ k < n /\ filename[k + 1] = "/"
        IN  call.ret => (test_prefix \/ test_suffix \/ test_directory)

====
